---- MODULE Spec2Model ----
(***************************************************************************)
(* Model of the serverless handler get-deal-line-items                     *)
(* (src/src/app/app.functions/get-deal-line-items.js, exports.main).       *)
(*                                                                         *)
(* One invocation of main is a sequence of steps cut at its awaits:        *)
(*   Start            lines   4-58   validation, token, deal fetch issued  *)
(*   DealReturns      lines  59-92   deal outcome, association lookup      *)
(*   AssocReturns     lines  94-160  merge of identifiers, batch read      *)
(*   LineItemsReturn  lines 162-194  product references, product read      *)
(*   ProductsReturn   lines 196-273  product map, formatting, envelope     *)
(* The CRM is the environment: every outcome of an outbound call is drawn  *)
(* from a bounded set when the call returns.                               *)
(*                                                                         *)
(* JavaScript values are records tagged by t.  Numbers are exact decimals  *)
(* with two places, held in hundredths (h): 2 is Num(200), 10.5 is         *)
(* Num(1050).  Numeric strings are sequences of characters (cs), so that   *)
(* parseInt and parseFloat are computed and not assumed.                   *)
(***************************************************************************)
EXTENDS Integers, Sequences, FiniteSets, TLC

\* ------------------------------------------------------------ bounds
\* longest list of association entries returned by either identifier source
MaxAssoc == 2
\* longest list of records returned by the line-item batch read
MaxRecords == 2
\* longest list of records returned by the product batch read
MaxProducts == 1
\* most update, delete and create requests the card has in flight at once
MaxInFlight == 1
\* the deal amount from which the card is given no further save
MaxAmount == 30
\* most get-deal-line-items requests a line-item card issues in one run
MaxRequests == 3

\* ------------------------------------------------------------ JS values
Undef == [t |-> "undefined"]
Null == [t |-> "null"]
Str(s) == [t |-> "str", s |-> s]
\* a string kept as its characters (the numeric properties)
Chars(cs) == [t |-> "str", cs |-> cs]
Num(h) == [t |-> "num", h |-> h]
NaN == [t |-> "NaN"]
\* an object whose conversion to a primitive throws (malformed data)
Opaque == [t |-> "opaque"]

\* ToBoolean: undefined, null, "", 0 and NaN are falsy
Truthy(v) ==
    CASE v.t = "undefined" -> FALSE
      [] v.t = "null" -> FALSE
      [] v.t = "NaN" -> FALSE
      [] v.t = "num" -> v.h # 0
      [] v.t = "str" -> IF "s" \in DOMAIN v THEN v.s # "" ELSE v.cs # <<>>
      [] OTHER -> TRUE

\* a || b
Or(a, b) == IF Truthy(a) THEN a ELSE b

\* obj?.field
Get(obj, f) ==
    IF obj.t \in {"undefined", "null"} THEN Undef
    ELSE IF f \in DOMAIN obj THEN obj[f] ELSE Undef

\* ToString / ToPrimitive of a value throws for Opaque
Throws(v) == v.t = "opaque"

\* ------------------------------------------------------------ sequences
RECURSIVE SeqsUpTo(_, _)
SeqsUpTo(S, n) ==
    IF n = 0 THEN {<<>>}
    ELSE LET shorter == SeqsUpTo(S, n - 1)
         IN shorter \cup {Append(q, x) : q \in {r \in shorter : Len(r) = n - 1}, x \in S}

Range(q) == {q[i] : i \in 1..Len(q)}

\* Array.prototype.filter(Boolean)
RECURSIVE FilterBoolean(_)
FilterBoolean(q) ==
    IF q = <<>> THEN <<>>
    ELSE IF Truthy(Head(q)) THEN <<Head(q)>> \o FilterBoolean(Tail(q))
    ELSE FilterBoolean(Tail(q))

\* [...new Set(q)]: first occurrences, in insertion order
RECURSIVE SetOrder(_)
SetOrder(q) ==
    IF q = <<>> THEN <<>>
    ELSE LET front == SetOrder(SubSeq(q, 1, Len(q) - 1))
             x == q[Len(q)]
         IN IF x \in Range(front) THEN front ELSE Append(front, x)

\* ------------------------------------------------------------ errors
\* what the CRM client rejects with: name, message, status, response
HttpError(code, text) ==
    [t |-> "error", name |-> "HttpError", message |-> text, status |-> Num(code * 100),
     response |-> [t |-> "obj", status |-> Num(code * 100), statusText |-> text,
                   data |-> Str("body")]]

NetworkError ==
    [t |-> "error", name |-> "Error", message |-> "socket hang up", status |-> Undef,
     response |-> Undef]

\* raised by the runtime on a property read of null or undefined, or on the
\* conversion of an Opaque value
TypeError(text) ==
    [t |-> "error", name |-> "TypeError", message |-> text, status |-> Undef,
     response |-> Undef]

Resolved(v) == [settled |-> "resolved", value |-> v]
Rejected(e) == [settled |-> "rejected", value |-> e]

Failures == {Rejected(HttpError(404, "Not Found")), Rejected(NetworkError)}

\* ------------------------------------------------------------ inputs of main
\* parameters and context.parameters: an object with an optional dealId
DealIdValues == {Undef, Str(""), Str(" "), Str("D1")}

ParametersValues == {[t |-> "obj", dealId |-> d] : d \in DealIdValues}

\* context: serializable says whether JSON.stringify accepts it (a context
\* holding a cycle or a BigInt is rejected with a TypeError)
ContextValues ==
    {[t |-> "obj", parameters |-> Undef, serializable |-> TRUE],
     [t |-> "obj", parameters |-> Undef, serializable |-> FALSE],
     [t |-> "obj", parameters |-> [t |-> "obj", dealId |-> Str("")], serializable |-> TRUE],
     [t |-> "obj", parameters |-> [t |-> "obj", dealId |-> Str("D1")], serializable |-> TRUE]}

\* process.env['PRIVATE_APP_ACCESS_TOKEN']
TokenValues == {Undef, Str(""), Str("pat-token")}

\* line 8: parameters?.dealId || context?.parameters?.dealId
DealIdOf(ctx, params) == Or(Get(params, "dealId"), Get(Get(ctx, "parameters"), "dealId"))

\* ------------------------------------------------------------ identifier sources
\* one entry of an association list: {id}, an entry without id, or null
Entry(id) == [t |-> "obj", id |-> Str(id)]
EntryNoId == [t |-> "obj"]

\* associationsApi.getAll resolves with {results: [...]}, or with an object
\* without results, or with null
AssocResponse(q) == [t |-> "obj", results |-> q]

\* deals.basicApi.getById resolves with {id, properties, associations?}
DealResponse(id, q) ==
    [t |-> "obj", id |-> id,
     associations |-> [t |-> "obj", line_items |-> [t |-> "obj", results |-> q]]]
DealResponseBare(id) == [t |-> "obj", id |-> id]

HasResults(obj) == obj.t = "obj" /\ "results" \in DOMAIN obj

\* .map(r => r?.id)
RECURSIVE MapId(_)
MapId(q) == IF q = <<>> THEN <<>> ELSE <<Get(Head(q), "id")>> \o MapId(Tail(q))

\* idsFromDeal.forEach(id => { if (!lineItemIds.includes(id)) lineItemIds.push(id) })
RECURSIVE PushNew(_, _)
PushNew(acc, q) ==
    IF q = <<>> THEN acc
    ELSE PushNew(IF Head(q) \in Range(acc) THEN acc ELSE Append(acc, Head(q)), Tail(q))

\* lines 107-113: identifiers of the direct association lookup
IdsFromAssociations(associationsResponse) ==
    IF HasResults(associationsResponse) /\ Len(associationsResponse.results) > 0
    THEN FilterBoolean(MapId(associationsResponse.results))
    ELSE <<>>

\* lines 116-119: identifiers embedded in the deal record
IdsFromDeal(dealResponse) ==
    LET li == Get(Get(dealResponse, "associations"), "line_items")
    IN IF HasResults(li) THEN FilterBoolean(MapId(li.results)) ELSE <<>>

\* a merge that concatenates the two sources
MergeIdsConcat(associationsResponse, dealResponse) ==
    IdsFromAssociations(associationsResponse) \o IdsFromDeal(dealResponse)

\* lines 103-128: the merged identifier set
MergeIds(associationsResponse, dealResponse) ==
    SetOrder(FilterBoolean(PushNew(IdsFromAssociations(associationsResponse),
                                   IdsFromDeal(dealResponse))))

\* ------------------------------------------------------------ numbers
Digits == {"0", "1", "2", "3", "4", "5", "6", "7", "8", "9"}

DigitVal(c) ==
    CASE c = "0" -> 0 [] c = "1" -> 1 [] c = "2" -> 2 [] c = "3" -> 3 [] c = "4" -> 4
      [] c = "5" -> 5 [] c = "6" -> 6 [] c = "7" -> 7 [] c = "8" -> 8 [] c = "9" -> 9

DigitChar(d) == <<"0", "1", "2", "3", "4", "5", "6", "7", "8", "9">>[d + 1]

\* StrWhiteSpaceChar prefix skipped by parseInt and parseFloat
RECURSIVE SkipSpace(_)
SkipSpace(cs) == IF cs # <<>> /\ Head(cs) = " " THEN SkipSpace(Tail(cs)) ELSE cs

\* number of leading digits
RECURSIVE DigitRun(_)
DigitRun(cs) == IF cs # <<>> /\ Head(cs) \in Digits THEN 1 + DigitRun(Tail(cs)) ELSE 0

\* value of a run of digits
RECURSIVE DigitsValue(_)
DigitsValue(ds) ==
    IF ds = <<>> THEN 0 ELSE 10 * DigitsValue(SubSeq(ds, 1, Len(ds) - 1)) + DigitVal(ds[Len(ds)])

Drop(cs, n) == SubSeq(cs, n + 1, Len(cs))

\* parseInt(string, 10): optional sign, the longest run of digits, NaN without one
ParseIntChars(cs) ==
    LET s1 == SkipSpace(cs)
        neg == s1 # <<>> /\ Head(s1) = "-"
        s2 == IF s1 # <<>> /\ Head(s1) \in {"-", "+"} THEN Tail(s1) ELSE s1
        n == DigitRun(s2)
        v == DigitsValue(SubSeq(s2, 1, n)) * 100
    IN IF n = 0 THEN NaN ELSE Num(IF neg THEN 0 - v ELSE v)

\* parseFloat(string): optional sign, digits, optional point and digits; the
\* two first decimals are kept (the strings of this model have no more, and no
\* exponent)
ParseFloatChars(cs) ==
    LET s1 == SkipSpace(cs)
        neg == s1 # <<>> /\ Head(s1) = "-"
        s2 == IF s1 # <<>> /\ Head(s1) \in {"-", "+"} THEN Tail(s1) ELSE s1
        n == DigitRun(s2)
        s3 == Drop(s2, n)
        point == s3 # <<>> /\ Head(s3) = "."
        m == IF point THEN DigitRun(Tail(s3)) ELSE 0
        frac == IF point THEN SubSeq(Tail(s3), 1, m) ELSE <<>>
        d1 == IF m >= 1 THEN DigitVal(frac[1]) ELSE 0
        d2 == IF m >= 2 THEN DigitVal(frac[2]) ELSE 0
        v == DigitsValue(SubSeq(s2, 1, n)) * 100 + d1 * 10 + d2
    IN IF n = 0 /\ m = 0 THEN NaN ELSE Num(IF neg THEN 0 - v ELSE v)

\* Number.prototype.toString of a non-negative integer
RECURSIVE NatChars(_)
NatChars(n) ==
    IF n < 10 THEN <<DigitChar(n)>> ELSE Append(NatChars(n \div 10), DigitChar(n % 10))

\* Number.prototype.toString: sign, integer part, decimals without trailing zeros
NumChars(h) ==
    LET a == IF h < 0 THEN 0 - h ELSE h
        f == a % 100
        fs == IF f = 0 THEN <<>>
              ELSE IF f % 10 = 0 THEN <<".", DigitChar(f \div 10)>>
              ELSE <<".", DigitChar(f \div 10), DigitChar(f % 10)>>
    IN (IF h < 0 THEN <<"-">> ELSE <<>>) \o NatChars(a \div 100) \o fs

\* ToString of the argument of parseInt / parseFloat
ArgChars(v) == IF v.t = "num" THEN NumChars(v.h) ELSE v.cs

\* parseInt(raw || fallback, 10) || dflt, with the conversion failure of an
\* Opaque raw value reported as threw
ParseIntOr(raw, fallback, dflt) ==
    LET arg == Or(raw, Chars(fallback))
    IN IF Throws(arg) THEN [threw |-> TRUE]
       ELSE [threw |-> FALSE, v |-> Or(ParseIntChars(ArgChars(arg)), Num(dflt * 100))]

\* parseFloat(raw || fallback) || dflt
ParseFloatOr(raw, fallback, dflt) ==
    LET arg == Or(raw, Chars(fallback))
    IN IF Throws(arg) THEN [threw |-> TRUE]
       ELSE [threw |-> FALSE, v |-> Or(ParseFloatChars(ArgChars(arg)), Num(dflt * 100))]

\* ------------------------------------------------------------ products
\* a record of a batch read: {id, properties}
Record(id, props) == [t |-> "obj", id |-> id, properties |-> props]

ProductProps(name, price) ==
    [t |-> "obj", name |-> name, price |-> price, description |-> Str("desc"),
     hs_sku |-> Str("sku")]

\* lines 200-206: the entry stored for one product; parseFloat throws on an
\* Opaque price
ProductEntry(product) ==
    LET props == Get(product, "properties")
        price == ParseFloatOr(Get(props, "price"), <<"0">>, 0)
    IN IF price.threw THEN [threw |-> TRUE]
       ELSE [threw |-> FALSE,
             v |-> [t |-> "obj",
                    id |-> product.id,
                    name |-> Or(Get(props, "name"), Str("")),
                    price |-> price.v,
                    description |-> Or(Get(props, "description"), Str("")),
                    sku |-> Or(Get(props, "hs_sku"), Str(""))]]

\* lines 198-209: results.reduce((map, product) => ..., {}); the map is a
\* function from product id to entry, a later record replacing an earlier one
RECURSIVE ReduceProducts(_)
ReduceProducts(results) ==
    IF results = <<>> THEN [threw |-> FALSE, map |-> <<>>]
    ELSE LET before == ReduceProducts(SubSeq(results, 1, Len(results) - 1))
             product == results[Len(results)]
         IN IF before.threw THEN before
            ELSE IF ~(Truthy(product) /\ Truthy(Get(product, "id"))) THEN before
            ELSE IF Throws(product.id) \/ ProductEntry(product).threw THEN [threw |-> TRUE]
            ELSE [threw |-> FALSE,
                  map |-> (product.id.s :> ProductEntry(product).v) @@ before.map]

\* lines 187-216: the product map after the product batch read settled with
\* outcome; a rejection, and an exception while mapping, leave the map empty
ProductsMapOf(outcome) ==
    IF outcome.settled = "rejected" THEN <<>>
    ELSE IF ~HasResults(outcome.value) THEN <<>>
    ELSE LET r == ReduceProducts(outcome.value.results)
         IN IF r.threw THEN <<>> ELSE r.map

\* Object.keys(productsMap).length
MapSize(m) == Cardinality(DOMAIN m)

\* ------------------------------------------------------------ line items
LineItemProps(pid, name, qty, price, amount) ==
    [t |-> "obj", hs_product_id |-> pid, name |-> name, quantity |-> qty, price |-> price,
     amount |-> amount, ticket_id |-> Undef, ready_for_fulfillment |-> Undef]

\* line 180: lineItemsResponse?.results || []
ResultsOf(lineItemsResponse) ==
    IF HasResults(lineItemsResponse) THEN lineItemsResponse.results ELSE <<>>

\* .map(item => item?.properties?.hs_product_id)
RECURSIVE MapProductId(_)
MapProductId(q) ==
    IF q = <<>> THEN <<>>
    ELSE <<Get(Get(Head(q), "properties"), "hs_product_id")>> \o MapProductId(Tail(q))

\* lines 183-185: the distinct product references of the fetched line items
\* the product references without the removal of repeated ones
ProductIdsWithRepeats(lineItemResults) == FilterBoolean(MapProductId(lineItemResults))

ProductIdsOf(lineItemResults) == SetOrder(FilterBoolean(MapProductId(lineItemResults)))

\* names of members productsMap, an object literal (line 187, line 209),
\* inherits from Object.prototype
ObjectPrototypeKeys == {"constructor", "toString", "valueOf", "hasOwnProperty"}

\* the inherited member: a function, with a name and none of the fields of a
\* product entry (the name of Object.prototype.constructor is "Object")
PrototypeMember(key) ==
    [t |-> "function", id |-> Undef,
     name |-> Str(IF key = "constructor" THEN "Object" ELSE key),
     price |-> Undef, description |-> Undef, sku |-> Undef]

\* line 222: productsMap[productId] || null; the property read finds own
\* entries first and inherited members next
Lookup(productsMap, productId) ==
    IF productId.t = "str" /\ productId.s \in DOMAIN productsMap
    THEN productsMap[productId.s]
    ELSE IF productId.t = "str" /\ productId.s \in ObjectPrototypeKeys
    THEN PrototypeMember(productId.s)
    ELSE Null

\* lines 232-238: the nested product view
ProductView(product) ==
    [t |-> "obj",
     id |-> Or(product.id, Str("")),
     name |-> Or(product.name, Str("")),
     price |-> Or(product.price, Num(0)),
     description |-> Or(product.description, Str("")),
     sku |-> Or(product.sku, Str(""))]

\* the values the try block of lines 221-241 converts with String(), parseInt,
\* parseFloat or uses as a property key
TryOperands(item, index, productsMap) ==
    LET props == Get(item, "properties")
        productId == Or(Get(props, "hs_product_id"), Str(""))
        product == Lookup(productsMap, productId)
    IN {productId,
        Or(Get(item, "id"), Str("item-" \o ToString(index))),
        Or(Get(props, "name"), Or(Get(product, "name"), Str("Unknown Product"))),
        Or(Get(props, "quantity"), Chars(<<"1">>)),
        Or(Get(props, "price"), Chars(<<"0">>)),
        Or(Get(props, "amount"), Chars(<<"0">>)),
        Or(Get(props, "ticket_id"), Str("")),
        Or(Get(props, "ready_for_fulfillment"), Str(""))}
       \cup (IF Truthy(product)
             THEN {Or(product.id, Str("")), Or(product.name, Str("")),
                   Or(product.description, Str("")), Or(product.sku, Str(""))}
             ELSE {})

\* lines 221-241: the view of one record, when no conversion throws
NormalView(item, index, productsMap) ==
    LET props == Get(item, "properties")
        productId == Or(Get(props, "hs_product_id"), Str(""))
        product == Lookup(productsMap, productId)
    IN [t |-> "obj",
        id |-> Or(Get(item, "id"), Str("item-" \o ToString(index))),
        productId |-> Or(productId, Str("")),
        productName |-> Or(Get(props, "name"), Or(Get(product, "name"), Str("Unknown Product"))),
        quantity |-> ParseIntOr(Get(props, "quantity"), <<"1">>, 1).v,
        price |-> ParseFloatOr(Get(props, "price"), <<"0">>, 0).v,
        amount |-> ParseFloatOr(Get(props, "amount"), <<"0">>, 0).v,
        product |-> IF Truthy(product) THEN ProductView(product) ELSE Null,
        ticketId |-> Or(Get(props, "ticket_id"), Str("")),
        readyForFulfillment |-> Or(Get(props, "ready_for_fulfillment"), Str(""))]

\* lines 245-254: the placeholder returned by the catch block
PlaceholderView(item, index) ==
    [t |-> "obj",
     id |-> Or(Get(item, "id"), Str("error-" \o ToString(index))),
     productId |-> Str(""),
     productName |-> Str("Error loading item"),
     quantity |-> Num(0),
     price |-> Num(0),
     amount |-> Num(0),
     product |-> Null,
     ticketId |-> Str("")]

\* a callback that returns null for a null record, which filter(Boolean) drops
FormatItemSkipNull(item, index, productsMap) ==
    IF item.t = "null" THEN [threw |-> FALSE, view |-> Null]
    ELSE IF \A v \in TryOperands(item, index, productsMap) : ~Throws(v)
    THEN [threw |-> FALSE, view |-> NormalView(item, index, productsMap)]
    ELSE IF Throws(Or(Get(item, "id"), Str("error-" \o ToString(index))))
    THEN [threw |-> TRUE]
    ELSE [threw |-> FALSE, view |-> PlaceholderView(item, index)]

\* lines 219-255, one call of the map callback: the try block, its catch block,
\* and the exception that leaves the callback when String(item.id) throws
\* again inside the catch block
FormatItem(item, index, productsMap) ==
    IF \A v \in TryOperands(item, index, productsMap) : ~Throws(v)
    THEN [threw |-> FALSE, view |-> NormalView(item, index, productsMap)]
    ELSE IF Throws(Or(Get(item, "id"), Str("error-" \o ToString(index))))
    THEN [threw |-> TRUE]
    ELSE [threw |-> FALSE, view |-> PlaceholderView(item, index)]

\* lines 219-256: lineItemResults.map(callback).filter(Boolean); index is the
\* zero-based position
RECURSIVE MapFormat(_, _)
MapFormat(lineItemResults, productsMap) ==
    IF lineItemResults = <<>> THEN [threw |-> FALSE, views |-> <<>>]
    ELSE LET n == Len(lineItemResults)
             before == MapFormat(SubSeq(lineItemResults, 1, n - 1), productsMap)
             this == FormatItem(lineItemResults[n], n - 1, productsMap)
         IN IF before.threw \/ this.threw THEN [threw |-> TRUE]
            ELSE [threw |-> FALSE, views |-> Append(before.views, this.view)]

FormatLineItems(lineItemResults, productsMap) ==
    LET mapped == MapFormat(lineItemResults, productsMap)
    IN IF mapped.threw THEN mapped
       ELSE [threw |-> FALSE, views |-> FilterBoolean(mapped.views)]

\* ------------------------------------------------------------ envelopes
\* lines 20-28
ValidationFailure(ctx, params) ==
    [t |-> "obj", success |-> FALSE, message |-> "Deal ID is required", data |-> <<>>,
     debug |-> [context |-> ctx, parameters |-> params]]

\* lines 36-40
ConfigurationFailure ==
    [t |-> "obj", success |-> FALSE,
     message |-> "Server configuration error: missing access token", data |-> <<>>]

\* lines 75-79 and 285-289: error.response ? {status, statusText, data} : null
ResponseDetails(error) ==
    IF Truthy(error.response)
    THEN [t |-> "obj", status |-> error.response.status,
          statusText |-> error.response.statusText, data |-> error.response.data]
    ELSE Null

\* lines 68-81
DealFailure(id, dealError) ==
    [t |-> "obj", success |-> FALSE,
     message |-> "Failed to fetch deal " \o id.s \o ": " \o dealError.message,
     data |-> <<>>,
     errorDetails |-> [name |-> dealError.name, status |-> dealError.status,
                       response |-> ResponseDetails(dealError)]]

\* an empty identifier set reported as a failure
NoLineItemsAsFailure ==
    [t |-> "obj", success |-> FALSE, data |-> <<>>,
     message |-> "No line items found for this deal"]

\* lines 132-136
NoLineItems ==
    [t |-> "obj", success |-> TRUE, data |-> <<>>,
     message |-> "No line items found for this deal"]

\* a batch failure reported without the identifiers attempted
BatchFailureNoIds(batchError, ids) ==
    [t |-> "obj", success |-> FALSE,
     message |-> "Failed to fetch line items: " \o batchError.message,
     data |-> <<>>,
     errorDetails |-> [name |-> batchError.name, status |-> batchError.status,
                       lineItemIds |-> <<>>]]

\* lines 165-174
BatchFailure(batchError, ids) ==
    [t |-> "obj", success |-> FALSE,
     message |-> "Failed to fetch line items: " \o batchError.message,
     data |-> <<>>,
     errorDetails |-> [name |-> batchError.name, status |-> batchError.status,
                       lineItemIds |-> ids]]

\* an unexpected failure reported without the data field
UnexpectedFailureNoData(error) ==
    [t |-> "obj", success |-> FALSE,
     message |-> IF error.message # "" THEN error.message ELSE "Failed to fetch line items",
     errorDetails |-> [name |-> error.name, status |-> error.status,
                       stack |-> "TypeError: at exports.main",
                       response |-> ResponseDetails(error)]]

\* lines 277-291
UnexpectedFailure(error) ==
    [t |-> "obj", success |-> FALSE,
     message |-> IF error.message # "" THEN error.message ELSE "Failed to fetch line items",
     data |-> <<>>,
     errorDetails |-> [name |-> error.name, status |-> error.status,
                       stack |-> "TypeError: at exports.main",
                       response |-> ResponseDetails(error)]]

\* a success envelope that counts the views as identifiers found
SuccessCountsViews(views, ids, productsMap) ==
    [t |-> "obj", success |-> TRUE, data |-> views,
     meta |-> [totalFound |-> Len(views), totalFormatted |-> Len(views),
               productsFound |-> MapSize(productsMap)]]

\* lines 261-271
Success(views, ids, productsMap) ==
    [t |-> "obj", success |-> TRUE, data |-> views,
     meta |-> [totalFound |-> Len(ids), totalFormatted |-> Len(views),
               productsFound |-> MapSize(productsMap)]]

\* lines 218-294: formatting and the envelope that ends the invocation; an
\* exception leaving the map callback is caught at line 275
FinalEnvelope(results, ids, productsMap) ==
    LET formatted == FormatLineItems(results, productsMap)
    IN IF formatted.threw
       THEN UnexpectedFailure(TypeError("Cannot convert object to primitive value"))
       ELSE Success(formatted.views, ids, productsMap)

\* ------------------------------------------------------------ state
VARIABLES
    context,               \* first argument of main
    parameters,            \* second argument of main
    token,                 \* process.env['PRIVATE_APP_ACCESS_TOKEN']
    pc,                    \* the await main is suspended at, or how it ended
    dealId,                \* line 8
    dealResponse,          \* line 51
    associationsResponse,  \* line 87
    lineItemIds,           \* line 104
    lineItemResults,       \* line 180
    productsMap,           \* line 187
    calls,                 \* outbound CRM calls, in the order issued, with their outcome
    response,              \* the value main resolved with, or the error it rejected with
    previous               \* calls and envelope of the invocation before this one

Pending == [settled |-> "pending"]

\* state of one invocation of main of get-deal-info
VARIABLES
    convention,            \* "callback" (second argument is sendResponse) or "promise"
    sendResponseThrows,    \* whether the callback given as sendResponse throws
    infoContext,           \* first argument
    infoParameters,        \* second argument when it is not a function
    infoPc,                \* the await the invocation is suspended at, or how it ended
    infoDealId,            \* dealId (line 8)
    deal,                  \* line 85
    stageLabel,            \* line 88
    ownerName,             \* line 91
    sendResponseCalls,     \* the envelopes sendResponse was invoked with, in order
    infoResult             \* what the promise returned by main settled with

infoVars ==
    <<convention, sendResponseThrows, infoContext, infoParameters, infoPc, infoDealId,
      deal, stageLabel, ownerName, sendResponseCalls, infoResult>>

\* get-deal-line-items: the variables of one invocation of its main
mainVars ==
    <<context, parameters, token, pc, dealId, dealResponse, associationsResponse,
      lineItemIds, lineItemResults, productsMap, calls, response, previous>>

\* the caller of main of get-deal-line-items
VARIABLES
    signalAborted          \* whether the caller has aborted its cancellation signal

\* the card components of src/app/extensions
VARIABLES
    configuration,         \* DealProductConfiguration: state, refs, requests in flight
    tracking,              \* DealLineItems with isMountedRef (part_003), likewise
    listing                \* DealLineItems with a Refresh button (part_008), likewise

uiVars == <<configuration, tracking, listing>>

\* the variables of the other programs, and of the caller
otherVars == <<infoVars, signalAborted, uiVars>>

\* the variables get-deal-info leaves alone
exceptInfo == <<mainVars, signalAborted, uiVars>>

\* the variables DealProductConfiguration leaves alone
exceptConfiguration == <<mainVars, infoVars, signalAborted, tracking, listing>>

\* the variables the DealLineItems of part_003 leaves alone
exceptTracking == <<mainVars, infoVars, signalAborted, configuration, listing>>

\* the variables the DealLineItems of part_008 leaves alone
exceptListing == <<mainVars, infoVars, signalAborted, configuration, tracking>>

\* a component that is not on the page
NotRendered == [inFlight |-> <<>>]

\* no card is on the page
NoCard == configuration = NotRendered /\ tracking = NotRendered /\ listing = NotRendered

vars == <<mainVars, otherVars>>

\* get-deal-info is not invoked
InfoNotInvoked ==
    /\ convention = "promise"
    /\ sendResponseThrows = FALSE
    /\ infoContext = [t |-> "obj"]
    /\ infoParameters = Undef
    /\ infoPc = "idle"
    /\ infoDealId = Undef
    /\ deal = Undef
    /\ stageLabel = Undef
    /\ ownerName = Undef
    /\ sendResponseCalls = <<>>
    /\ infoResult = Pending

\* a call that writes the records it names
CallThatUpdates(api, ids) == [api |-> api \o ".update", ids |-> ids, result |-> Pending]

Call(api, ids) == [api |-> api, ids |-> ids, result |-> Pending]

\* a call that is issued again when it was rejected
SettleAndRetry(log, outcome) ==
    IF outcome.settled = "rejected"
    THEN Append([log EXCEPT ![Len(log)].result = outcome],
                [log[Len(log)] EXCEPT !.result = Pending])
    ELSE [log EXCEPT ![Len(log)].result = outcome]

\* the outcome of the call issued last
Settle(log, outcome) == [log EXCEPT ![Len(log)].result = outcome]

Init ==
    /\ context \in ContextValues
    /\ parameters \in ParametersValues
    /\ token \in TokenValues
    /\ pc = "start"
    /\ dealId = Undef
    /\ dealResponse = Undef
    /\ associationsResponse = Undef
    /\ lineItemIds = <<>>
    /\ lineItemResults = <<>>
    /\ productsMap = <<>>
    /\ calls = <<>>
    /\ response = Undef
    /\ previous = Undef
    /\ InfoNotInvoked
    /\ signalAborted = FALSE
    /\ NoCard

\* get-deal-line-items is not invoked
MainNotInvoked ==
    /\ context = [t |-> "obj", parameters |-> Undef, serializable |-> TRUE]
    /\ parameters = [t |-> "obj", dealId |-> Undef]
    /\ token = Str("pat-token")
    /\ pc = "idle"
    /\ dealId = Undef
    /\ dealResponse = Undef
    /\ associationsResponse = Undef
    /\ lineItemIds = <<>>
    /\ lineItemResults = <<>>
    /\ productsMap = <<>>
    /\ calls = <<>>
    /\ response = Undef
    /\ previous = Undef
    /\ signalAborted = FALSE

\* line 18: !dealId
MissingDealId(id) == ~Truthy(id)

\* a token check that accepts the empty string
MissingTokenOnlyUndefined(tok) == tok = Undef

\* line 34: !token
MissingToken(tok) == ~Truthy(tok)

\* return response, after console.log('=== RETURNING ===', JSON.stringify(response))
Return(envelope) ==
    /\ pc' = "returned"
    /\ response' = envelope

\* lines 4-58: validation of the input and of the configuration; the deal fetch
\* is issued.  JSON.stringify at line 29 is given the context inside debug and
\* is outside every try block.
Start ==
    /\ pc = "start"
    /\ dealId' = DealIdOf(context, parameters)
    /\ IF MissingDealId(dealId')
       THEN /\ IF context.serializable
               THEN Return(ValidationFailure(context, parameters))
               ELSE /\ pc' = "rejected"
                    /\ response' = TypeError("Converting circular structure to JSON")
            /\ UNCHANGED calls
       ELSE IF MissingToken(token)
       THEN /\ Return(ConfigurationFailure)
            /\ UNCHANGED calls
       ELSE /\ calls' = Append(calls, Call("deals.getById", <<dealId'>>))
            /\ pc' = "awaitDeal"
            /\ UNCHANGED response
    /\ UNCHANGED <<otherVars, previous, context, parameters, token, dealResponse, associationsResponse,
                   lineItemIds, lineItemResults, productsMap>>

\* a resolved value on which a property read throws
Nullish(v) == v.t \in {"undefined", "null"}

\* a deal fetch whose failure is recovered like that of the association lookup
DealReturnsNonFatal(outcome) ==
    /\ pc = "awaitDeal"
    /\ dealResponse' = IF outcome.settled = "rejected" \/ Nullish(outcome.value)
                       THEN DealResponseBare(dealId) ELSE outcome.value
    /\ calls' = Append(Settle(calls, outcome), Call("deals.associations.getAll", <<dealId>>))
    /\ pc' = "awaitAssoc"
    /\ UNCHANGED <<otherVars, previous, context, parameters, token, dealId, associationsResponse,
                   lineItemIds, lineItemResults, productsMap, response>>

\* lines 51-92: the deal fetch settles.  A rejection, and the TypeError of the
\* log statement of line 61 on a null response, are caught at line 66; otherwise
\* the association lookup is issued.
DealReturns(outcome) ==
    /\ pc = "awaitDeal"
    /\ LET failed == outcome.settled = "rejected" \/ Nullish(outcome.value)
           dealError == IF outcome.settled = "rejected" THEN outcome.value
                        ELSE TypeError("Cannot read properties of null (reading 'id')")
       IN /\ dealResponse' = IF outcome.settled = "rejected" THEN dealResponse
                             ELSE outcome.value
          /\ IF failed
             THEN /\ Return(DealFailure(dealId, dealError))
                  /\ calls' = Settle(calls, outcome)
             ELSE /\ calls' = Append(Settle(calls, outcome),
                                     Call("deals.associations.getAll", <<dealId>>))
                  /\ pc' = "awaitAssoc"
                  /\ UNCHANGED response
    /\ UNCHANGED <<otherVars, previous, context, parameters, token, dealId, associationsResponse,
                   lineItemIds, lineItemResults, productsMap>>

\* lines 87-101: the value of associationsResponse once the lookup settled; a
\* rejection, and the TypeError of the log statement of line 95, are caught at
\* line 98
AssociationsAfter(outcome) ==
    IF outcome.settled = "rejected" \/ Nullish(outcome.value)
    THEN AssocResponse(<<>>)
    ELSE outcome.value

\* an association lookup whose failure ends the invocation
AssocReturnsFatal(outcome) ==
    /\ pc = "awaitAssoc"
    /\ associationsResponse' = AssociationsAfter(outcome)
    /\ lineItemIds' = IF outcome.settled = "rejected" THEN lineItemIds
                      ELSE MergeIds(associationsResponse', dealResponse)
    /\ IF outcome.settled = "rejected"
       THEN /\ Return(DealFailure(dealId, outcome.value))
            /\ calls' = Settle(calls, outcome)
       ELSE IF Len(lineItemIds') = 0
       THEN /\ Return(NoLineItems)
            /\ calls' = Settle(calls, outcome)
       ELSE /\ calls' = Append(Settle(calls, outcome),
                               Call("lineItems.batch.read", lineItemIds'))
            /\ pc' = "awaitLineItems"
            /\ UNCHANGED response
    /\ UNCHANGED <<otherVars, previous, context, parameters, token, dealId, dealResponse, lineItemResults,
                   productsMap>>

\* lines 87-160: the association lookup settles, the identifiers are merged,
\* and the line-item batch read is issued unless there is none
AssocReturns(outcome) ==
    /\ pc = "awaitAssoc"
    /\ associationsResponse' = AssociationsAfter(outcome)
    /\ lineItemIds' = MergeIds(associationsResponse', dealResponse)
    /\ IF Len(lineItemIds') = 0
       THEN /\ Return(NoLineItems)
            /\ calls' = Settle(calls, outcome)
       ELSE /\ calls' = Append(Settle(calls, outcome),
                               Call("lineItems.batch.read", lineItemIds'))
            /\ pc' = "awaitLineItems"
            /\ UNCHANGED response
    /\ UNCHANGED <<otherVars, previous, context, parameters, token, dealId, dealResponse, lineItemResults,
                   productsMap>>

\* lines 144-216: the line-item batch read settles.  A rejection, and the
\* TypeError of the log statement of line 162 on a null response, are caught at
\* line 163.  Without a product reference the product read is skipped and the
\* invocation ends here.
LineItemsReturn(outcome) ==
    /\ pc = "awaitLineItems"
    /\ LET failed == outcome.settled = "rejected" \/ Nullish(outcome.value)
           batchError == IF outcome.settled = "rejected" THEN outcome.value
                         ELSE TypeError("Cannot read properties of null (reading 'results')")
           results == IF failed THEN lineItemResults ELSE ResultsOf(outcome.value)
           productIds == ProductIdsOf(results)
       IN /\ lineItemResults' = results
          /\ IF failed
             THEN /\ Return(BatchFailure(batchError, lineItemIds))
                  /\ calls' = Settle(calls, outcome)
             ELSE IF Len(productIds) > 0
             THEN /\ calls' = Append(Settle(calls, outcome),
                                     Call("products.batch.read", productIds))
                  /\ pc' = "awaitProducts"
                  /\ UNCHANGED response
             ELSE /\ Return(FinalEnvelope(results, lineItemIds, productsMap))
                  /\ calls' = Settle(calls, outcome)
    /\ UNCHANGED <<otherVars, previous, context, parameters, token, dealId, dealResponse, associationsResponse,
                   lineItemIds, productsMap>>

\* lines 189-273: the product batch read settles; its failure is not fatal
ProductsReturn(outcome) ==
    /\ pc = "awaitProducts"
    /\ productsMap' = ProductsMapOf(outcome)
    /\ calls' = Settle(calls, outcome)
    /\ Return(FinalEnvelope(lineItemResults, lineItemIds, productsMap'))
    /\ UNCHANGED <<otherVars, previous, context, parameters, token, dealId, dealResponse, associationsResponse,
                   lineItemIds, lineItemResults>>

\* lines 4-8, 51, 87, 104, 180, 187: main is invoked again with the same
\* arguments; dealId, the responses, lineItemIds, lineItemResults and
\* productsMap are locals of the invocation, and the module keeps nothing else
\* than the required client library (line 2)
Restart ==
    /\ pc = "returned"
    /\ previous = Undef
    /\ previous' = [t |-> "run", calls |-> calls, response |-> response]
    /\ pc' = "start"
    /\ dealId' = Undef
    /\ dealResponse' = Undef
    /\ associationsResponse' = Undef
    /\ lineItemIds' = <<>>
    /\ lineItemResults' = <<>>
    /\ productsMap' = <<>>
    /\ calls' = <<>>
    /\ response' = Undef
    /\ UNCHANGED <<otherVars, context, parameters, token>>

\* the caller aborts its signal, or its timeout expires, while main waits for a
\* CRM call.  main takes (context, parameters) and reads dealId from them
\* (lines 4-8); the calls of lines 53, 89, 146 and 191 are given no signal.
Abort ==
    /\ pc \in {"awaitDeal", "awaitAssoc", "awaitLineItems", "awaitProducts"}
    /\ ~signalAborted
    /\ signalAborted' = TRUE
    /\ UNCHANGED <<mainVars, infoVars, uiVars>>

\* ------------------------------------------------------------ get-deal-info
\* part_000 lines 17-20, 41-44
InfoMissingId == [t |-> "obj", success |-> FALSE, message |-> "Deal ID is required"]

\* part_000 lines 26-29, 49-52
InfoSuccess(result) == [t |-> "obj", success |-> TRUE, data |-> result]

\* part_000 lines 32-35, 55-58: error.message || 'Failed to fetch deal information'
InfoFailure(error) ==
    [t |-> "obj", success |-> FALSE,
     message |-> IF error.message # "" THEN error.message
                 ELSE "Failed to fetch deal information"]

\* what a throwing sendResponse throws
CallbackError == TypeError("sendResponse failed")

InitInfo ==
    /\ MainNotInvoked
    /\ NoCard
    /\ convention \in {"callback", "promise"}
    /\ sendResponseThrows \in (IF convention = "callback" THEN BOOLEAN ELSE {FALSE})
    /\ infoContext \in {[t |-> "obj", parameters |-> [t |-> "obj", dealId |-> id]] :
                           id \in {Undef, Str("D1")}}
    /\ infoParameters \in (IF convention = "callback" THEN {Undef}
                           ELSE {Undef, [t |-> "obj", dealId |-> Undef],
                                 [t |-> "obj", dealId |-> Str("D1")]})
    /\ infoPc = "start"
    /\ infoDealId = Undef
    /\ deal = Undef
    /\ stageLabel = Undef
    /\ ownerName = Undef
    /\ sendResponseCalls = <<>>
    /\ infoResult = Pending

\* return envelope (promise convention), or sendResponse(envelope); return
\* outside a try block (callback convention, lines 17-21 and 32-35)
Respond(envelope) ==
    IF convention = "promise"
    THEN /\ infoResult' = Resolved(envelope)
         /\ infoPc' = "returned"
         /\ UNCHANGED sendResponseCalls
    ELSE /\ sendResponseCalls' = Append(sendResponseCalls, envelope)
         /\ IF sendResponseThrows
            THEN infoResult' = Rejected(CallbackError) /\ infoPc' = "rejected"
            ELSE infoResult' = Resolved(Undef) /\ infoPc' = "returned"

\* lines 24-36 and 48-59 once getDealInfo has resolved with result:
\* sendResponse({success: true, data: result}) is inside the try block, so
\* what it throws is caught at line 30 and sendResponse is invoked again
RespondSuccess(result) ==
    IF convention = "callback" /\ sendResponseThrows
    THEN /\ sendResponseCalls'
              = sendResponseCalls \o <<InfoSuccess(result), InfoFailure(CallbackError)>>
         /\ infoResult' = Rejected(CallbackError)
         /\ infoPc' = "rejected"
    ELSE Respond(InfoSuccess(result))

\* lines 4-46: the calling convention is told from the second argument, the
\* deal id is read, and getDealInfo issues the deal fetch
InfoStart ==
    /\ infoPc = "start"
    /\ infoDealId' = IF convention = "callback"
                     THEN Get(Get(infoContext, "parameters"), "dealId")
                     ELSE Or(Get(infoParameters, "dealId"),
                             Get(Get(infoContext, "parameters"), "dealId"))
    /\ IF ~Truthy(infoDealId')
       THEN Respond(InfoMissingId)
       ELSE /\ infoPc' = "awaitDeal"
            /\ UNCHANGED <<sendResponseCalls, infoResult>>
    /\ UNCHANGED <<convention, sendResponseThrows, infoContext, infoParameters, deal,
                   stageLabel, ownerName, exceptInfo>>

\* lines 125-139; parseFloat(amount) || 0 is NaN || 0 for a missing amount
DealInfo(d, label, owner, companyId, companyName, companyDbPrefix) ==
    [t |-> "obj",
     id |-> Get(d, "id"),
     name |-> Or(d.properties.dealname, Str("Untitled Deal")),
     amount |-> ParseFloatOr(d.properties.amount, <<"N", "a", "N">>, 0).v,
     stage |-> d.properties.dealstage,
     stageLabel |-> label,
     closeDate |-> d.properties.closedate,
     ownerId |-> d.properties.hubspot_owner_id,
     ownerName |-> owner,
     companyId |-> companyId,
     companyName |-> companyName,
     companyDbPrefix |-> companyDbPrefix,
     dealType |-> Or(d.properties.deal_type, Str("")),
     programType |-> Or(d.properties.program_type, Str(""))]

\* lines 70-88: the deal fetch settles.  A rejection, and the TypeError of
\* deal.properties on a null response, leave getDealInfo and are caught at
\* line 30 or 54; otherwise getStageLabel issues the pipeline read.
InfoDealReturns(outcome) ==
    /\ infoPc = "awaitDeal"
    /\ IF outcome.settled = "rejected"
       THEN Respond(InfoFailure(outcome.value)) /\ UNCHANGED deal
       ELSE IF Nullish(outcome.value)
       THEN /\ Respond(InfoFailure(
                    TypeError("Cannot read properties of null (reading 'properties')")))
            /\ deal' = outcome.value
       ELSE /\ deal' = outcome.value
            /\ infoPc' = "awaitStage"
            /\ UNCHANGED <<sendResponseCalls, infoResult>>
    /\ UNCHANGED <<convention, sendResponseThrows, infoContext, infoParameters,
                   infoDealId, stageLabel, ownerName, exceptInfo>>

\* lines 153-154: pipeline.stages.find(s => s.id === stageId), its label
StageLabelIn(stages, stageId) ==
    IF \E i \in 1..Len(stages) : stages[i].id = stageId
    THEN stages[CHOOSE i \in 1..Len(stages) :
                  stages[i].id = stageId /\ \A j \in 1..(i - 1) : stages[j].id # stageId].label
    ELSE stageId

\* lines 104-122 when the deal has no associated company
NoCompany == [id |-> Null, name |-> Str("No Company"), dbPrefix |-> Null]

\* line 108: deal.associations?.companies?.results?.length > 0
HasCompany(d) ==
    LET companies == Get(Get(d, "associations"), "companies")
    IN HasResults(companies) /\ Len(companies.results) > 0

\* lines 103-142 once the owner is known: the company read is issued, or
\* getDealInfo returns
AfterOwner(owner) ==
    IF HasCompany(deal)
    THEN /\ infoPc' = "awaitCompany"
         /\ UNCHANGED <<sendResponseCalls, infoResult>>
    ELSE RespondSuccess(DealInfo(deal, stageLabel', owner, NoCompany.id, NoCompany.name,
                                 NoCompany.dbPrefix))

\* lines 146-158 and 88-101: the pipeline read settles; its failure gives the
\* stage id as label.  The owner read is issued when the deal has an owner.
InfoStageReturns(outcome) ==
    /\ infoPc = "awaitStage"
    /\ stageLabel' = IF outcome.settled = "rejected" \/ Nullish(outcome.value)
                     THEN deal.properties.dealstage
                     ELSE StageLabelIn(outcome.value.stages, deal.properties.dealstage)
    /\ IF Truthy(deal.properties.hubspot_owner_id)
       THEN /\ infoPc' = "awaitOwner"
            /\ ownerName' = Str("Unassigned")
            /\ UNCHANGED <<sendResponseCalls, infoResult>>
       ELSE /\ ownerName' = Str("Unassigned")
            /\ AfterOwner(ownerName')
    /\ UNCHANGED <<convention, sendResponseThrows, infoContext, infoParameters,
                   infoDealId, deal, exceptInfo>>

\* line 97: `${firstName || ''} ${lastName || ''}`.trim()
FullName(owner) ==
    LET first == Or(Get(owner, "firstName"), Str("")).s
        last == Or(Get(owner, "lastName"), Str("")).s
    IN Str(IF first # "" /\ last # "" THEN first \o " " \o last ELSE first \o last)

\* lines 93-122: the owner read settles; its failure keeps 'Unassigned'
InfoOwnerReturns(outcome) ==
    /\ infoPc = "awaitOwner"
    /\ ownerName' = IF outcome.settled = "rejected" \/ Nullish(outcome.value)
                    THEN ownerName ELSE FullName(outcome.value)
    /\ UNCHANGED stageLabel
    /\ AfterOwner(ownerName')
    /\ UNCHANGED <<convention, sendResponseThrows, infoContext, infoParameters,
                   infoDealId, deal, exceptInfo>>

\* lines 111-142: the company read settles; its failure keeps 'No Company'
\* with the id of the association
InfoCompanyReturns(outcome) ==
    /\ infoPc = "awaitCompany"
    /\ UNCHANGED stageLabel
    /\ LET companyId == deal.associations.companies.results[1].id
           failed == outcome.settled = "rejected" \/ Nullish(outcome.value)
       IN RespondSuccess(
              DealInfo(deal, stageLabel, ownerName, companyId,
                       IF failed THEN Str("No Company")
                       ELSE Or(outcome.value.properties.name, Str("Unknown Company")),
                       IF failed THEN Null
                       ELSE Or(outcome.value.properties.db_account_number, Null)))
    /\ UNCHANGED <<convention, sendResponseThrows, infoContext, infoParameters,
                   infoDealId, deal, ownerName, exceptInfo>>

\* ------------------------------------------------------------ environment
\* entries of the two identifier sources
AssocEntries == {Entry("L1"), Entry("L2"), EntryNoId}
DealEntries == {Entry("L2"), Entry("L3"), Null}

\* every outcome of deals.basicApi.getById with lists of at most n entries
DealOutcomes(n) ==
    Failures
    \cup {Resolved(Null), Resolved(DealResponseBare(Str("D1")))}
    \cup {Resolved(DealResponse(Str("D1"), q)) : q \in SeqsUpTo(DealEntries, n)}

\* every outcome of deals.associationsApi.getAll with lists of at most n entries
AssocOutcomes(n) ==
    Failures
    \cup {Resolved(Undef), Resolved([t |-> "obj"])}
    \cup {Resolved(AssocResponse(q)) : q \in SeqsUpTo(AssocEntries, n)}

\* a few outcomes of the two identifier sources
DealOutcomesFew ==
    Failures
    \cup {Resolved(Null), Resolved(DealResponseBare(Str("D1"))),
          Resolved(DealResponse(Str("D1"), <<Entry("L2"), Entry("L3")>>))}

AssocOutcomesFew ==
    {Rejected(NetworkError), Resolved(AssocResponse(<<>>)),
     Resolved(AssocResponse(<<Entry("L1"), Entry("L2")>>))}

\* line-item records: complete, without name and quantity, without product and
\* with an empty name, without id and properties, null, and malformed ones
\* (an Opaque name, an Opaque id)
LineItemPool ==
    {Record(Str("L1"), LineItemProps(Str("P1"), Str("Widget"), Chars(<<"2">>),
                                     Chars(<<"1", "0", ".", "5", "0">>), Chars(<<"2", "1">>))),
     Record(Str("L2"), LineItemProps(Str("P2"), Undef, Undef, Null, Chars(<<>>))),
     Record(Str("L3"), LineItemProps(Undef, Str(""), Chars(<<"a", "b">>),
                                     Chars(<<"-", "3">>), Num(1999))),
     [t |-> "obj"],
     Null,
     Record(Str("L1"), LineItemProps(Str("P1"), Opaque, Chars(<<"1">>), Undef, Undef)),
     Record(Opaque, LineItemProps(Undef, Str("Widget"), Chars(<<"1">>), Undef, Undef))}

\* every outcome of lineItems.batchApi.read with at most n records
LineItemOutcomes(n) ==
    Failures
    \cup {Resolved(Null), Resolved([t |-> "obj"])}
    \cup {Resolved([t |-> "obj", results |-> q]) : q \in SeqsUpTo(LineItemPool, n)}

\* a few outcomes of lineItems.batchApi.read
LineItemOutcomesFew ==
    {Rejected(HttpError(404, "Not Found")),
     Resolved([t |-> "obj", results |->
         <<Record(Str("L1"), LineItemProps(Str("P1"), Str("Widget"), Chars(<<"2">>),
                                           Chars(<<"1", "0", ".", "5", "0">>),
                                           Chars(<<"2", "1">>)))>>]),
     Resolved([t |-> "obj", results |->
         <<Record(Str("L3"), LineItemProps(Undef, Str(""), Chars(<<"a", "b">>),
                                           Chars(<<"-", "3">>), Num(1999)))>>])}

\* line-item records for the fields of a view: numeric strings, missing and
\* invalid values, zero, numbers, a fraction as quantity, and a product
\* reference that is the name of an inherited member of the product map
ViewPool ==
    {Record(Str("L1"), LineItemProps(Str("P1"), Str("Widget"), Chars(<<"2">>),
                                     Chars(<<"1", "0", ".", "5", "0">>), Chars(<<"2", "1">>))),
     Record(Str("L2"), LineItemProps(Str("P2"), Undef, Undef, Null, Chars(<<>>))),
     Record(Str("L3"), LineItemProps(Undef, Str(""), Chars(<<"a", "b">>),
                                     Chars(<<"-", "3">>), Num(1999))),
     Record(Str("L4"), LineItemProps(Undef, Str("Bolt"), Chars(<<"0">>), Chars(<<"0">>),
                                     Num(0))),
     Record(Str("L5"), LineItemProps(Str("constructor"), Undef, Num(300), Num(250),
                                     Chars(<<"7", ".", "5">>))),
     Record(Str("L6"), LineItemProps(Str("P1"), Undef, Chars(<<"2", ".", "5">>),
                                     Chars(<<"-", "3">>), NaN))}

\* lineItems.batchApi.read resolving with one or two of these records
ViewOutcomes ==
    {Resolved([t |-> "obj", results |-> <<r>>]) : r \in ViewPool}
    \cup {Resolved([t |-> "obj", results |-> <<r1, r2>>]) : r1, r2 \in ViewPool}

\* deal records of get-deal-info: with and without owner, with and without an
\* associated company
InfoDealProps(amount, owner) ==
    [t |-> "obj", dealname |-> Str("Big deal"), amount |-> amount,
     dealstage |-> Str("closedwon"), closedate |-> Undef, hubspot_owner_id |-> owner,
     deal_type |-> Undef, program_type |-> Str("standard")]

InfoDealOutcomes ==
    Failures
    \cup {Resolved(Null),
          Resolved([t |-> "obj", id |-> Str("D1"),
                    properties |-> InfoDealProps(Chars(<<"1", "2", ".", "5">>), Str("O1")),
                    associations |->
                        [t |-> "obj",
                         companies |-> [t |-> "obj", results |-> <<Entry("C1")>>]]]),
          Resolved([t |-> "obj", id |-> Str("D1"),
                    properties |-> InfoDealProps(Undef, Undef)])}

\* outcomes of pipelinesApi.getById('deals', 'default')
StageOutcomes ==
    {Rejected(NetworkError),
     Resolved([t |-> "obj",
               stages |-> <<[id |-> Str("open"), label |-> Str("Open")],
                            [id |-> Str("closedwon"), label |-> Str("Closed Won")]>>]),
     Resolved([t |-> "obj", stages |-> <<>>])}

\* outcomes of ownersApi.getById
OwnerOutcomes ==
    {Rejected(NetworkError),
     Resolved([t |-> "obj", firstName |-> Str("Ann"), lastName |-> Str("Lee")]),
     Resolved([t |-> "obj", firstName |-> Undef, lastName |-> Str("Lee")])}

\* outcomes of companies.basicApi.getById
CompanyOutcomes ==
    {Rejected(HttpError(404, "Not Found")),
     Resolved([t |-> "obj",
               properties |-> [t |-> "obj", name |-> Str("Acme"),
                               db_account_number |-> Str("AC")]]),
     Resolved([t |-> "obj",
               properties |-> [t |-> "obj", name |-> Undef, db_account_number |-> Undef]])}

\* product records: complete, without name, null, and one with an Opaque price
ProductPool ==
    {Record(Str("P1"), ProductProps(Str("Gadget"), Chars(<<"9", ".", "9", "9">>))),
     Record(Str("P2"), ProductProps(Undef, Undef)),
     Null,
     Record(Str("P1"), ProductProps(Str("Gadget"), Opaque))}

\* every outcome of products.batchApi.read with at most n records
ProductOutcomes(n) ==
    Failures
    \cup {Resolved(Null), Resolved([t |-> "obj"])}
    \cup {Resolved([t |-> "obj", results |-> q]) : q \in SeqsUpTo(ProductPool, n)}

\* a few outcomes of products.batchApi.read
ProductOutcomesFew ==
    {Rejected(NetworkError),
     Resolved([t |-> "obj", results |->
         <<Record(Str("P1"), ProductProps(Str("Gadget"), Chars(<<"9", ".", "9", "9">>)))>>])}

\* ------------------------------------------------------------ DealProductConfiguration
\* The card component of src/app/extensions/DealLineItems.tsx.  Its state,
\* its refs and the requests it has in flight are the fields of the record
\* configuration; amounts are whole currency units.  A handler is an
\* operator from the state it is called in to the state it leaves at its
\* first await (or at its return), and one operator per response takes the
\* state to the one left when the handler, and whatever awaited it, is
\* suspended again.  The child components (CartDisplay,
\* SharedProductConfiguration, SendToFulfillment) are the environment: they
\* invoke a callback they were given only in a render that contains them.

\* an array value
Arr(items) == [t |-> "array", items |-> items]

\* the envelope a serverless function answers with
Envelope(success, data, message) ==
    [t |-> "obj", success |-> success, data |-> data, message |-> message]

\* the same envelope inside the platform's wrapper
Wrapped(envelope) == [t |-> "obj", status |-> Str("SUCCESS"), response |-> envelope]

\* lines 194-197, 230-233, 378-381, 461-464, 543-546
Unwrap(resp) ==
    IF Get(resp, "status") = Str("SUCCESS") /\ Truthy(Get(resp, "response"))
    THEN resp.response
    ELSE resp

\* response.status of undefined or null throws
ReadThrows(outcome) ==
    outcome.settled = "resolved" /\ outcome.value.t \in {"undefined", "null"}

\* err.message in the catch clauses
CaughtMessage(outcome) ==
    IF outcome.settled = "rejected" THEN outcome.value.message
    ELSE "Cannot read properties of undefined (reading 'status')"

\* the outcome is an envelope with success set
Succeeded(outcome) ==
    /\ outcome.settled = "resolved"
    /\ ~ReadThrows(outcome)
    /\ Unwrap(outcome.value).success

\* actualResponse.message || fallback
MessageOr(outcome, fallback) == Or(Unwrap(outcome.value).message, Str(fallback)).s

\* lines 203-204
IsClosed(stage) == stage \in {"closedwon", "closedlost", "1030569063"}

\* dealInfo?.isClosed
DealIsClosed(info) == info.t # "null" /\ info.isClosed

RECURSIVE SumAmounts(_)
\* the total of a list of line items (line 770)
SumAmounts(items) ==
    IF items = <<>> THEN 0 ELSE Head(items).amount + SumAmounts(Tail(items))

Maximum(a, b) == IF a >= b THEN a ELSE b

\* q without its element i
Without(q, i) == SubSeq(q, 1, i - 1) \o SubSeq(q, i + 1, Len(q))

\* existingLineItems.find(item => item.id === lineItemId)
Find(items, lineItemId) ==
    LET hits == {i \in 1..Len(items) : items[i].id = lineItemId}
    IN IF hits = {} THEN Undef
       ELSE items[CHOOSE i \in hits : \A j \in hits : i <= j]

\* a request in flight: the serverless function, who awaits the handler that
\* issued it, and what that handler holds across its await
Request(name, awaitedBy, lineItemId, updatedData, closure) ==
    [name |-> name, awaitedBy |-> awaitedBy, lineItemId |-> lineItemId,
     updatedData |-> updatedData, closure |-> closure]

LoadRequest(name, awaitedBy) == Request(name, awaitedBy, Null, Null, Null)

\* lines 110-151: the state after the first render
Constructed ==
    [isInitialLoadRef |-> TRUE,
     loadingStatesRef |-> [dealInfo |-> FALSE, lineItems |-> FALSE, products |-> FALSE],
     loading |-> FALSE, submitting |-> FALSE, dealLoading |-> FALSE,
     lineItemsLoading |-> FALSE, error |-> "", dealInfo |-> Null,
     existingLineItems |-> <<>>, cart |-> <<>>, activeTab |-> "items",
     editingLineItemId |-> Null, inFlight |-> <<>>]

\* the requests in flight for one serverless function
InFlight(s, name) == {i \in 1..Len(s.inFlight) : s.inFlight[i].name = name}

\* the update, delete and create requests in flight
Mutations(s) ==
    InFlight(s, "update-line-item") \cup InFlight(s, "delete-line-item")
    \cup InFlight(s, "create-configuration")

\* a loadLineItems that issues its request whatever the guard says
LoadLineItemsUnguarded(s, awaitedBy) ==
    [s EXCEPT !.loadingStatesRef.lineItems = TRUE,
              !.lineItemsLoading = TRUE,
              !.inFlight = Append(@, LoadRequest("get-deal-line-items", awaitedBy))]

\* lines 181-192: loadDealInfo up to its await
LoadDealInfo(s, awaitedBy) ==
    IF s.loadingStatesRef.dealInfo THEN s
    ELSE [s EXCEPT !.loadingStatesRef.dealInfo = TRUE,
                   !.dealLoading = TRUE,
                   !.error = "",
                   !.inFlight = Append(@, LoadRequest("get-deal-info", awaitedBy))]

\* lines 218-228: loadLineItems up to its await
LoadLineItems(s, awaitedBy) ==
    IF s.loadingStatesRef.lineItems THEN s
    ELSE [s EXCEPT !.loadingStatesRef.lineItems = TRUE,
                   !.lineItemsLoading = TRUE,
                   !.inFlight = Append(@, LoadRequest("get-deal-line-items", awaitedBy))]

\* lines 249-260: loadProducts up to its await
LoadProducts(s) ==
    IF s.loadingStatesRef.products THEN s
    ELSE [s EXCEPT !.loadingStatesRef.products = TRUE,
                   !.loading = TRUE,
                   !.inFlight = Append(@, LoadRequest("get-products", "loadInitialData"))]

\* lines 154-172: the mount effect
LoadInitialData(s) ==
    LoadProducts(LoadLineItems(LoadDealInfo([s EXCEPT !.isInitialLoadRef = FALSE],
                                            "loadInitialData"),
                               "loadInitialData"))

\* lines 797-800
OnRefresh(s) == LoadLineItems(LoadDealInfo(s, "onRefresh"), "onRefresh")

\* lines 684-689: the tabs and their children are rendered
Rendered(s) == ~s.loading /\ ~s.dealLoading /\ s.dealInfo.t # "null"

\* lines 760-783: CartDisplay is rendered
CartDisplayed(s) ==
    /\ Rendered(s)
    /\ s.activeTab = "items"
    /\ s.editingLineItemId = Null
    /\ ~s.lineItemsLoading
    /\ s.existingLineItems # <<>>

\* lines 733-759: the editing form is rendered
EditFormDisplayed(s) ==
    Rendered(s) /\ s.activeTab = "items" /\ s.editingLineItemId # Null

\* lines 804-829: the form of the tab for new items is rendered
NewItemsDisplayed(s) == Rendered(s) /\ s.activeTab = "new"

\* an edit handler that does not look at the stage of the deal
HandleEditLineItemUnchecked(s, lineItem) ==
    [s EXCEPT !.editingLineItemId = lineItem.id, !.activeTab = "items"]

\* lines 344-358
HandleEditLineItem(s, lineItem) ==
    IF DealIsClosed(s.dealInfo)
    THEN [s EXCEPT !.error = "Cannot edit line items on closed deals"]
    ELSE [s EXCEPT !.editingLineItemId = lineItem.id, !.activeTab = "items"]

\* lines 679-681
HandleCancelEdit(s) == [s EXCEPT !.editingLineItemId = Null]

\* lines 361-376: handleSaveLineItem up to its await; the handler keeps the
\* dealInfo and existingLineItems of the render it was created in
HandleSaveLineItem(s, lineItemId, updatedData) ==
    IF ~Truthy(lineItemId) THEN s
    ELSE [s EXCEPT !.submitting = TRUE,
                   !.error = "",
                   !.inFlight =
                       Append(@, Request("update-line-item", "nobody", lineItemId,
                                         updatedData,
                                         [dealInfo |-> s.dealInfo,
                                          existingLineItems |-> s.existingLineItems]))]

\* lines 439-459: handleDeleteLineItem up to its await
HandleDeleteLineItem(s, lineItemId) ==
    IF DealIsClosed(s.dealInfo)
    THEN [s EXCEPT !.error = "Cannot delete line items on closed deals"]
    ELSE IF Find(s.existingLineItems, lineItemId) = Undef
    THEN [s EXCEPT !.error = "Line item not found"]
    ELSE [s EXCEPT !.inFlight =
                       Append(@, Request("delete-line-item", "nobody", lineItemId, Null,
                                         [dealInfo |-> s.dealInfo,
                                          lineItemToDelete |->
                                              Find(s.existingLineItems, lineItemId)]))]

\* lines 673-676
HandleCartUpdate(s, updatedCart) == [s EXCEPT !.cart = updatedCart]

\* lines 491-541: handleSubmitNewItems up to its await
HandleSubmitNewItems(s) ==
    IF s.cart = <<>> THEN s
    ELSE [s EXCEPT !.submitting = TRUE,
                   !.error = "",
                   !.inFlight = Append(@, Request("create-configuration", "nobody", Null,
                                                  Null, Null))]

\* lines 553-555, 561-562: the end of handleSubmitNewItems after its reloads
SubmitDone(s) ==
    [s EXCEPT !.cart = <<>>, !.activeTab = "items", !.submitting = FALSE]

\* line 551 onwards: handleSubmitNewItems once loadLineItems has settled
SubmitAfterLineItems(s) ==
    IF s.loadingStatesRef.dealInfo THEN SubmitDone(s)
    ELSE LoadDealInfo(s, "handleSubmitNewItems")

\* lines 548-551: handleSubmitNewItems after a successful create-configuration
SubmitReloads(s) ==
    IF s.loadingStatesRef.lineItems THEN SubmitAfterLineItems(s)
    ELSE LoadLineItems(s, "handleSubmitNewItems")

\* lines 194-214: loadDealInfo from its response to its end
DealInfoLoaded(s, outcome) ==
    LET handled ==
            IF outcome.settled = "rejected" \/ ReadThrows(outcome)
            THEN [s EXCEPT !.error = "Error loading deal: " \o CaughtMessage(outcome)]
            ELSE IF Succeeded(outcome)
            THEN LET d == Unwrap(outcome.value).data
                 IN [s EXCEPT !.dealInfo = [t |-> "obj", stage |-> d.stage,
                                            amount |-> d.amount,
                                            isClosed |-> IsClosed(d.stage)]]
            ELSE [s EXCEPT !.error =
                               MessageOr(outcome, "Failed to load deal information")]
    IN [handled EXCEPT !.dealLoading = FALSE, !.loadingStatesRef.dealInfo = FALSE]

\* lines 230-245: loadLineItems from its response to its end
LineItemsLoaded(s, outcome) ==
    LET handled ==
            IF outcome.settled = "rejected" \/ ReadThrows(outcome)
            THEN [s EXCEPT !.error = "Error loading line items: " \o CaughtMessage(outcome)]
            ELSE IF Succeeded(outcome)
            THEN [s EXCEPT !.existingLineItems =
                               Or(Unwrap(outcome.value).data, Arr(<<>>)).items]
            ELSE [s EXCEPT !.error = MessageOr(outcome, "Failed to load line items")]
    IN [handled EXCEPT !.lineItemsLoading = FALSE, !.loadingStatesRef.lineItems = FALSE]

\* lines 261-276: loadProducts from its response to its end
ProductsLoaded(s, outcome) ==
    LET handled ==
            IF outcome.settled = "rejected" \/ ReadThrows(outcome)
            THEN [s EXCEPT !.error = "Error loading products: " \o CaughtMessage(outcome)]
            ELSE IF Succeeded(outcome) /\ Truthy(Unwrap(outcome.value).data)
            THEN s
            ELSE [s EXCEPT !.error = MessageOr(outcome, "Failed to load products")]
    IN [handled EXCEPT !.loading = FALSE, !.loadingStatesRef.products = FALSE]

\* lines 391-407: the updater given to setExistingLineItems
SavedItems(prevItems, lineItemId, newPrice, quantity) ==
    [i \in 1..Len(prevItems) |->
        IF prevItems[i].id = lineItemId
        THEN [prevItems[i] EXCEPT !.amount = newPrice * quantity]
        ELSE prevItems[i]]

\* lines 412-414: the difference added to the deal amount, with the amount the
\* item had in the render handleSaveLineItem was created in
AmountDifference(closure, lineItemId, newAmount) ==
    LET oldLineItem == Find(closure.existingLineItems, lineItemId)
        oldAmount == IF oldLineItem = Undef THEN 0 ELSE oldLineItem.amount
    IN newAmount - oldAmount

\* lines 378-435: handleSaveLineItem from its response to its end
LineItemSaved(s, request, outcome) ==
    LET newPrice == request.updatedData.price
        newAmount == newPrice * request.updatedData.quantity
        handled ==
            IF outcome.settled = "rejected" \/ ReadThrows(outcome)
            THEN [s EXCEPT !.error = "Error updating line item: " \o CaughtMessage(outcome)]
            ELSE IF Succeeded(outcome)
            THEN [s EXCEPT
                     !.existingLineItems =
                         SavedItems(@, request.lineItemId, newPrice,
                                    request.updatedData.quantity),
                     !.dealInfo =
                         IF request.closure.dealInfo.t # "null"
                         THEN [s.dealInfo EXCEPT !.amount =
                                   s.dealInfo.amount
                                   + AmountDifference(request.closure,
                                                      request.lineItemId, newAmount)]
                         ELSE s.dealInfo,
                     !.editingLineItemId = Null]
            ELSE [s EXCEPT !.error = MessageOr(outcome, "Failed to update line item")]
    IN [handled EXCEPT !.submitting = FALSE]

\* lines 470-472: the updater given to setExistingLineItems
RECURSIVE RemainingItems(_, _)
RemainingItems(prevItems, lineItemId) ==
    IF prevItems = <<>> THEN <<>>
    ELSE IF Head(prevItems).id = lineItemId THEN RemainingItems(Tail(prevItems), lineItemId)
    ELSE <<Head(prevItems)>> \o RemainingItems(Tail(prevItems), lineItemId)

\* lines 461-487: handleDeleteLineItem from its response to its end
LineItemDeleted(s, request, outcome) ==
    IF outcome.settled = "rejected" \/ ReadThrows(outcome)
    THEN [s EXCEPT !.error = "Error deleting line item: " \o CaughtMessage(outcome)]
    ELSE IF Succeeded(outcome)
    THEN [s EXCEPT
             !.existingLineItems = RemainingItems(@, request.lineItemId),
             !.dealInfo =
                 IF request.closure.dealInfo.t # "null"
                 THEN [s.dealInfo EXCEPT !.amount =
                           Maximum(0, s.dealInfo.amount
                                      - request.closure.lineItemToDelete.amount)]
                 ELSE s.dealInfo]
    ELSE [s EXCEPT !.error = MessageOr(outcome, "Failed to delete line item")]

\* lines 543-563: handleSubmitNewItems from the response of create-configuration
\* to its next await, or to its end
ConfigurationCreated(s, outcome) ==
    IF outcome.settled = "rejected" \/ ReadThrows(outcome)
    THEN [s EXCEPT !.error = "Error adding items: " \o CaughtMessage(outcome),
                   !.submitting = FALSE]
    ELSE IF Succeeded(outcome) THEN SubmitReloads(s)
    ELSE [s EXCEPT !.error = MessageOr(outcome, "Failed to add items"),
                   !.submitting = FALSE]

\* the component is mounted: the effect of lines 154-159 runs once
Mount ==
    /\ configuration.isInitialLoadRef
    /\ configuration' = LoadInitialData(configuration)
    /\ UNCHANGED exceptConfiguration

\* SendToFulfillment asks for a refresh
Refresh ==
    /\ Rendered(configuration)
    /\ configuration.activeTab = "items"
    /\ configuration' = OnRefresh(configuration)
    /\ UNCHANGED exceptConfiguration

\* line 718: the user selects a tab; line 804 disables the tab for new items
\* on a closed deal
SelectTab(tabId) ==
    /\ Rendered(configuration)
    /\ tabId # configuration.activeTab
    /\ ~(tabId = "new" /\ configuration.dealInfo.isClosed)
    /\ configuration' = [configuration EXCEPT !.activeTab = tabId]
    /\ UNCHANGED exceptConfiguration

\* lines 778-781: Edit on a row of CartDisplay
EditLineItem(index) ==
    /\ CartDisplayed(configuration)
    /\ index \in 1..Len(configuration.existingLineItems)
    /\ configuration' =
           HandleEditLineItem(configuration, configuration.existingLineItems[index])
    /\ UNCHANGED exceptConfiguration

\* line 726: Cancel Editing
CancelEdit ==
    /\ EditFormDisplayed(configuration)
    /\ configuration' = HandleCancelEdit(configuration)
    /\ UNCHANGED exceptConfiguration

\* line 756: the editing form saves the line item being edited
SaveLineItem(updatedData) ==
    /\ EditFormDisplayed(configuration)
    /\ Cardinality(Mutations(configuration)) < MaxInFlight
    /\ configuration.dealInfo.amount < MaxAmount
    /\ configuration' =
           HandleSaveLineItem(configuration, configuration.editingLineItemId, updatedData)
    /\ UNCHANGED exceptConfiguration

\* lines 771-776: Remove on a row of CartDisplay
DeleteLineItem(index) ==
    /\ CartDisplayed(configuration)
    /\ index \in 1..Len(configuration.existingLineItems)
    /\ Cardinality(Mutations(configuration)) < MaxInFlight
    /\ configuration' =
           HandleDeleteLineItem(configuration, configuration.existingLineItems[index].id)
    /\ UNCHANGED exceptConfiguration

\* line 818: the form for new items reports its cart
CartUpdate(updatedCart) ==
    /\ NewItemsDisplayed(configuration)
    /\ updatedCart # configuration.cart
    /\ configuration' = HandleCartUpdate(configuration, updatedCart)
    /\ UNCHANGED exceptConfiguration

\* line 819: the form for new items submits the cart
SubmitNewItems ==
    /\ NewItemsDisplayed(configuration)
    /\ Cardinality(Mutations(configuration)) < MaxInFlight
    /\ configuration' = HandleSubmitNewItems(configuration)
    /\ UNCHANGED exceptConfiguration

\* the state once request i is answered and no longer in flight
Answered(i) == [configuration EXCEPT !.inFlight = Without(@, i)]

\* get-deal-info answers request i
LoadDealInfoReturns(i, outcome) ==
    /\ i \in InFlight(configuration, "get-deal-info")
    /\ configuration' =
           IF configuration.inFlight[i].awaitedBy = "handleSubmitNewItems"
           THEN SubmitDone(DealInfoLoaded(Answered(i), outcome))
           ELSE DealInfoLoaded(Answered(i), outcome)
    /\ UNCHANGED exceptConfiguration

\* get-deal-line-items answers request i
LoadLineItemsReturns(i, outcome) ==
    /\ i \in InFlight(configuration, "get-deal-line-items")
    /\ configuration' =
           IF configuration.inFlight[i].awaitedBy = "handleSubmitNewItems"
           THEN SubmitAfterLineItems(LineItemsLoaded(Answered(i), outcome))
           ELSE LineItemsLoaded(Answered(i), outcome)
    /\ UNCHANGED exceptConfiguration

\* get-products answers request i
LoadProductsReturns(i, outcome) ==
    /\ i \in InFlight(configuration, "get-products")
    /\ configuration' = ProductsLoaded(Answered(i), outcome)
    /\ UNCHANGED exceptConfiguration

\* update-line-item answers request i
UpdateLineItemReturns(i, outcome) ==
    /\ i \in InFlight(configuration, "update-line-item")
    /\ configuration' = LineItemSaved(Answered(i), configuration.inFlight[i], outcome)
    /\ UNCHANGED exceptConfiguration

\* delete-line-item answers request i
DeleteLineItemReturns(i, outcome) ==
    /\ i \in InFlight(configuration, "delete-line-item")
    /\ configuration' = LineItemDeleted(Answered(i), configuration.inFlight[i], outcome)
    /\ UNCHANGED exceptConfiguration

\* create-configuration answers request i
CreateConfigurationReturns(i, outcome) ==
    /\ i \in InFlight(configuration, "create-configuration")
    /\ configuration' = ConfigurationCreated(Answered(i), outcome)
    /\ UNCHANGED exceptConfiguration

\* ---- the serverless functions as the component sees them
ItemA == [id |-> Str("L1"), amount |-> 10]
ItemB == [id |-> Str("L2"), amount |-> 5]

LineItemsResponses ==
    {Resolved(Envelope(TRUE, Arr(<<ItemA>>), Undef)),
     Resolved(Wrapped(Envelope(TRUE, Arr(<<ItemA, ItemB>>), Undef))),
     Resolved(Envelope(TRUE, Undef, Undef)),
     Resolved(Envelope(FALSE, Arr(<<>>), Str("Failed to fetch deal: Not Found"))),
     Resolved(Envelope(FALSE, Arr(<<>>), Undef)),
     Resolved(Undef),
     Rejected(NetworkError)}

DealInfoResponses ==
    {Resolved(Wrapped(Envelope(TRUE, [t |-> "obj", stage |-> stage, amount |-> amount],
                               Undef))) :
        stage \in {"contractsent", "closedwon"}, amount \in {10, 15}}
    \cup {Resolved(Envelope(FALSE, Undef, Str("Deal ID is required"))),
          Rejected(NetworkError)}

ProductsResponses ==
    {Resolved(Envelope(TRUE, Arr(<<>>), Undef)), Rejected(NetworkError)}

MutationResponses ==
    {Resolved(Envelope(TRUE, Undef, Undef)),
     Resolved(Envelope(FALSE, Undef, Undef)),
     Rejected(NetworkError)}

\* what the editing form saves: a price and a quantity
UpdatedDataValues == {[price |-> 10, quantity |-> 2]}

\* what the form for new items reports as its cart
CartValues == {<<>>, <<[productId |-> "P1", subtotal |-> 5]>>}

\* ------------------------------------------------------------ DealLineItems (part_003)
\* The card that keeps isMountedRef.  tracking holds its state, its ref, the
\* dealId of its context and its requests in flight.

\* the deals the card is shown for
DealIds == {"D1", "D2"}

\* part_003 lines 66-80: the state after the first render
TrackedConstructed ==
    [isMountedRef |-> TRUE, dealId |-> "D1", dealLoading |-> FALSE,
     lineItemsLoading |-> FALSE, error |-> "", dealInfo |-> Null,
     existingLineItems |-> <<>>, inFlight |-> <<>>]

\* part_003 lines 122-127, 169-174: actualResponse?.success
TrackedSucceeded(outcome) ==
    LET actual == Unwrap(outcome.value)
    IN actual.t = "obj" /\ actual.success

\* part_003 lines 139, 181: actualResponse?.message || fallback
TrackedMessageOr(outcome, fallback) ==
    Or(Get(Unwrap(outcome.value), "message"), Str(fallback)).s

\* part_003 lines 145, 187: err?.message || 'Unknown error'
TrackedCaught(outcome) ==
    IF outcome.value.message # "" THEN outcome.value.message ELSE "Unknown error"

\* part_003 lines 107-118: loadDealInfo up to its await
TrackedLoadDealInfo(s) ==
    IF ~s.isMountedRef THEN s
    ELSE [s EXCEPT !.dealLoading = TRUE,
                   !.error = "",
                   !.inFlight = Append(@, [name |-> "get-deal-info", dealId |-> s.dealId])]

\* part_003 lines 155-165: loadLineItems up to its await
TrackedLoadLineItems(s) ==
    IF ~s.isMountedRef THEN s
    ELSE [s EXCEPT !.lineItemsLoading = TRUE,
                   !.inFlight =
                       Append(@, [name |-> "get-deal-line-items", dealId |-> s.dealId])]

\* part_003 lines 90-104: the effect that runs on mount and when dealId changes
InitializeData(s) == TrackedLoadLineItems(TrackedLoadDealInfo(s))

\* a loadDealInfo that does not look at isMountedRef once it is answered
TrackedDealInfoLoadedUnchecked(s, outcome) ==
    IF outcome.settled = "rejected"
    THEN [s EXCEPT !.error = "Error loading deal: " \o TrackedCaught(outcome),
                   !.dealLoading = FALSE]
    ELSE IF TrackedSucceeded(outcome)
    THEN LET d == Unwrap(outcome.value).data
         IN [s EXCEPT !.dealInfo = IF Truthy(d)
                                   THEN [t |-> "obj", stage |-> d.stage,
                                         amount |-> d.amount,
                                         isClosed |-> IsClosed(d.stage)]
                                   ELSE @,
                      !.dealLoading = FALSE]
    ELSE [s EXCEPT !.error = TrackedMessageOr(outcome, "Failed to load deal information"),
                   !.dealLoading = FALSE]

\* part_003 lines 120-151: loadDealInfo from its response to its end
TrackedDealInfoLoaded(s, outcome) ==
    IF ~s.isMountedRef THEN s
    ELSE IF outcome.settled = "rejected"
    THEN [s EXCEPT !.error = "Error loading deal: " \o TrackedCaught(outcome),
                   !.dealLoading = FALSE]
    ELSE IF TrackedSucceeded(outcome)
    THEN LET d == Unwrap(outcome.value).data
         IN [s EXCEPT !.dealInfo = IF Truthy(d)
                                   THEN [t |-> "obj", stage |-> d.stage,
                                         amount |-> d.amount,
                                         isClosed |-> IsClosed(d.stage)]
                                   ELSE @,
                      !.dealLoading = FALSE]
    ELSE [s EXCEPT !.error = TrackedMessageOr(outcome, "Failed to load deal information"),
                   !.dealLoading = FALSE]

\* part_003 lines 175-177: Array.isArray(lineItems) ? lineItems : []
ArrayOrEmpty(data) ==
    LET lineItems == Or(data, Arr(<<>>))
    IN IF lineItems.t = "array" THEN lineItems.items ELSE <<>>

\* part_003 lines 167-193: loadLineItems from its response to its end
TrackedLineItemsLoaded(s, outcome) ==
    IF ~s.isMountedRef THEN s
    ELSE IF outcome.settled = "rejected"
    THEN [s EXCEPT !.error = "Error loading line items: " \o TrackedCaught(outcome),
                   !.lineItemsLoading = FALSE]
    ELSE IF TrackedSucceeded(outcome)
    THEN [s EXCEPT !.existingLineItems = ArrayOrEmpty(Unwrap(outcome.value).data),
                   !.lineItemsLoading = FALSE]
    ELSE [s EXCEPT !.error = TrackedMessageOr(outcome, "Failed to load line items"),
                   !.lineItemsLoading = FALSE]

\* the host shows the card for another deal: context.crm.objectId changes
\* and the effect of line 104 runs again
TrackedDealChanges(d) ==
    /\ tracking.isMountedRef
    /\ d # tracking.dealId
    /\ Len(tracking.inFlight) < MaxRequests
    /\ tracking' = InitializeData([tracking EXCEPT !.dealId = d])
    /\ UNCHANGED exceptTracking

\* part_003 lines 83-87: the card is removed from the page
TrackedUnmount ==
    /\ tracking.isMountedRef
    /\ tracking' = [tracking EXCEPT !.isMountedRef = FALSE]
    /\ UNCHANGED exceptTracking

\* get-deal-info answers request i of the card
TrackedDealInfoReturns(i, outcome) ==
    /\ i \in DOMAIN tracking.inFlight
    /\ tracking.inFlight[i].name = "get-deal-info"
    /\ tracking' =
           TrackedDealInfoLoaded([tracking EXCEPT !.inFlight = Without(@, i)], outcome)
    /\ UNCHANGED exceptTracking

\* get-deal-line-items answers request i of the card
TrackedLineItemsReturn(i, outcome) ==
    /\ i \in DOMAIN tracking.inFlight
    /\ tracking.inFlight[i].name = "get-deal-line-items"
    /\ tracking' =
           TrackedLineItemsLoaded([tracking EXCEPT !.inFlight = Without(@, i)], outcome)
    /\ UNCHANGED exceptTracking

\* the answers of get-deal-info the card is given
TrackedDealInfoResponses ==
    {Resolved(Wrapped(Envelope(TRUE, [t |-> "obj", stage |-> "closedwon", amount |-> 15],
                               Undef))),
     Resolved(Envelope(TRUE, Undef, Undef)),
     Resolved(Envelope(FALSE, Undef, Str("Deal ID is required"))),
     Resolved(Undef),
     Rejected(NetworkError)}

\* the answers of get-deal-line-items the card is given
TrackedLineItemsResponses ==
    {Resolved(Wrapped(Envelope(TRUE, Arr(<<ItemA, ItemB>>), Undef))),
     Resolved(Envelope(TRUE, Undef, Undef)),
     Resolved(Envelope(FALSE, Arr(<<>>), Undef)),
     Resolved(Undef),
     Rejected(NetworkError)}

\* ------------------------------------------------------------ DealLineItems (part_008)
\* The card with a Refresh button.  listing holds its state, the dealId of
\* its context ("" when the context has none) and its requests in the order
\* issued, each with the deal it asks for and its answer once it has one.

\* part_008 lines 38-43: the state after the first render
ListingConstructed ==
    [dealId |-> "D1", loading |-> TRUE, error |-> "", lineItems |-> <<>>,
     requests |-> <<>>]

\* part_008 lines 46-68: loadLineItems up to its await, or to its return
ListLineItems(s) ==
    IF s.dealId = ""
    THEN [s EXCEPT !.error = "Missing deal ID", !.loading = FALSE]
    ELSE [s EXCEPT !.loading = TRUE,
                   !.error = "",
                   !.requests = Append(@, [dealId |-> s.dealId, result |-> Pending])]

\* part_008 lines 101-109: the effect that runs on mount and when dealId changes
ListingEffect(s) ==
    IF s.dealId # "" THEN ListLineItems(s)
    ELSE [s EXCEPT !.loading = FALSE, !.error = "No deal ID available"]

\* part_008 lines 79-86: the line items taken from a success envelope
ListedItems(data) == IF data.t = "array" THEN data.items ELSE <<>>

\* part_008 lines 70-97: loadLineItems from the answer to request i to its end
ListingLoaded(s, outcome) ==
    IF outcome.settled = "rejected"
    THEN [s EXCEPT !.error = "Error loading line items: " \o TrackedCaught(outcome),
                   !.loading = FALSE]
    ELSE IF TrackedSucceeded(outcome)
    THEN [s EXCEPT !.lineItems = ListedItems(Unwrap(outcome.value).data),
                   !.loading = FALSE]
    ELSE [s EXCEPT !.error = TrackedMessageOr(outcome, "Failed to load line items"),
                   !.loading = FALSE]

\* part_008 lines 144-197: a Try Again or Refresh button is rendered
ButtonRendered(s) == s.dealId # "" /\ ~s.loading

\* the host shows the card for another deal, or for none
ListingDealChanges(d) ==
    /\ d # listing.dealId
    /\ Len(listing.requests) < MaxRequests
    /\ listing' = ListingEffect([listing EXCEPT !.dealId = d])
    /\ UNCHANGED exceptListing

\* part_008 lines 167, 181, 195: the user presses Try Again or Refresh
ListingRefresh ==
    /\ ButtonRendered(listing)
    /\ Len(listing.requests) < MaxRequests
    /\ listing' = ListLineItems(listing)
    /\ UNCHANGED exceptListing

\* get-deal-line-items answers request i of the card
ListingReturns(i, outcome) ==
    /\ i \in DOMAIN listing.requests
    /\ listing.requests[i].result = Pending
    /\ listing' = ListingLoaded([listing EXCEPT !.requests[i].result = outcome], outcome)
    /\ UNCHANGED exceptListing

\* the line items of a deal
ItemsOf(d) == IF d = "D1" THEN <<ItemA>> ELSE <<ItemB>>

\* the answers of get-deal-line-items to a request for deal d
ListingResponses(d) ==
    {Resolved(Wrapped(Envelope(TRUE, Arr(ItemsOf(d)), Undef))),
     Resolved(Envelope(TRUE, Undef, Undef)),
     Resolved(Envelope(FALSE, Arr(<<>>), Undef)),
     Rejected(NetworkError)}

\* ------------------------------------------------------------ specifications
\* one invocation of main against a CRM whose outcomes are drawn from D
\* (deal fetch), A (association lookup), L (line items) and P (products)
NextIn(D, A, L, P) ==
    \/ Start
    \/ \E outcome \in D : DealReturns(outcome)
    \/ \E outcome \in A : AssocReturns(outcome)
    \/ \E outcome \in L : LineItemsReturn(outcome)
    \/ \E outcome \in P : ProductsReturn(outcome)

\* every outcome of the two batch reads
Next ==
    NextIn(DealOutcomesFew, AssocOutcomesFew, LineItemOutcomes(MaxRecords),
           ProductOutcomes(MaxProducts))

Spec == Init /\ [][Next]_vars

\* every outcome of the two identifier sources
NextIds ==
    NextIn(DealOutcomes(MaxAssoc), AssocOutcomes(MaxAssoc), LineItemOutcomesFew,
           ProductOutcomesFew)

SpecIds == Init /\ [][NextIds]_vars

\* the records of ViewPool, with every outcome of the product batch read
NextViews ==
    NextIn(DealOutcomesFew, AssocOutcomesFew, ViewOutcomes, ProductOutcomes(MaxProducts))

SpecViews == Init /\ [][NextViews]_vars

\* one invocation of main of get-deal-info, in either calling convention
NextInfo ==
    \/ InfoStart
    \/ \E outcome \in InfoDealOutcomes : InfoDealReturns(outcome)
    \/ \E outcome \in StageOutcomes : InfoStageReturns(outcome)
    \/ \E outcome \in OwnerOutcomes : InfoOwnerReturns(outcome)
    \/ \E outcome \in CompanyOutcomes : InfoCompanyReturns(outcome)

SpecInfo == InitInfo /\ [][NextInfo]_vars

\* one invocation during which the caller may abort
NextCancel ==
    \/ NextIn(DealOutcomesFew, AssocOutcomesFew, LineItemOutcomesFew, ProductOutcomesFew)
    \/ Abort

SpecCancel == Init /\ [][NextCancel]_vars

\* two invocations in a row, with a few outcomes of every call
NextTwice ==
    \/ NextIn(DealOutcomesFew, AssocOutcomesFew, LineItemOutcomesFew, ProductOutcomesFew)
    \/ Restart

SpecTwice == Init /\ [][NextTwice]_vars

\* DealProductConfiguration from its first render, with its user and the
\* serverless functions as the environment
InitConfiguration ==
    /\ MainNotInvoked
    /\ InfoNotInvoked
    /\ configuration = Constructed
    /\ tracking = NotRendered
    /\ listing = NotRendered

\* the responses to the three loads of the card
LoadsReturn ==
    \/ \E i \in DOMAIN configuration.inFlight, outcome \in DealInfoResponses :
           LoadDealInfoReturns(i, outcome)
    \/ \E i \in DOMAIN configuration.inFlight, outcome \in LineItemsResponses :
           LoadLineItemsReturns(i, outcome)
    \/ \E i \in DOMAIN configuration.inFlight, outcome \in ProductsResponses :
           LoadProductsReturns(i, outcome)

\* the card with a user who adds new items, removes line items and refreshes
NextConfiguration ==
    \/ Mount
    \/ Refresh
    \/ \E tabId \in {"items", "new"} : SelectTab(tabId)
    \/ \E updatedCart \in CartValues : CartUpdate(updatedCart)
    \/ SubmitNewItems
    \/ \E index \in 1..2 : EditLineItem(index)
    \/ CancelEdit
    \/ \E index \in 1..2 : DeleteLineItem(index)
    \/ LoadsReturn
    \/ \E i \in DOMAIN configuration.inFlight, outcome \in MutationResponses :
           CreateConfigurationReturns(i, outcome)
    \/ \E i \in DOMAIN configuration.inFlight, outcome \in MutationResponses :
           DeleteLineItemReturns(i, outcome)

SpecConfiguration == InitConfiguration /\ [][NextConfiguration]_vars

\* the card with a user who edits, saves and removes line items and refreshes
NextEditing ==
    \/ Mount
    \/ Refresh
    \/ \E index \in 1..2 : EditLineItem(index)
    \/ CancelEdit
    \/ \E updatedData \in UpdatedDataValues : SaveLineItem(updatedData)
    \/ \E index \in 1..2 : DeleteLineItem(index)
    \/ LoadsReturn
    \/ \E i \in DOMAIN configuration.inFlight, outcome \in MutationResponses :
           UpdateLineItemReturns(i, outcome)
    \/ \E i \in DOMAIN configuration.inFlight, outcome \in MutationResponses :
           DeleteLineItemReturns(i, outcome)

SpecEditing == InitConfiguration /\ [][NextEditing]_vars

\* the DealLineItems of part_003 once its effects have run, until and after
\* it is removed from the page
InitTracking ==
    /\ MainNotInvoked
    /\ InfoNotInvoked
    /\ configuration = NotRendered
    /\ listing = NotRendered
    /\ tracking = InitializeData(TrackedConstructed)

NextTracking ==
    \/ \E d \in DealIds : TrackedDealChanges(d)
    \/ TrackedUnmount
    \/ \E i \in DOMAIN tracking.inFlight, outcome \in TrackedDealInfoResponses :
           TrackedDealInfoReturns(i, outcome)
    \/ \E i \in DOMAIN tracking.inFlight, outcome \in TrackedLineItemsResponses :
           TrackedLineItemsReturn(i, outcome)

SpecTracking == InitTracking /\ [][NextTracking]_vars

\* the DealLineItems of part_008 once its effect has run
InitListing ==
    /\ MainNotInvoked
    /\ InfoNotInvoked
    /\ configuration = NotRendered
    /\ tracking = NotRendered
    /\ listing = ListingEffect(ListingConstructed)

NextListing ==
    \/ \E d \in DealIds \cup {""} : ListingDealChanges(d)
    \/ ListingRefresh
    \/ \E i \in DOMAIN listing.requests :
           \E outcome \in ListingResponses(listing.requests[i].dealId) :
              ListingReturns(i, outcome)

SpecListing == InitListing /\ [][NextListing]_vars

\* ------------------------------------------------------------ properties
Returned == pc = "returned"

\* the outcome of the i-th outbound call, Pending when it was not issued
ResultOf(i) == IF i <= Len(calls) THEN calls[i].result ELSE Pending

DealRejected == ResultOf(1).settled = "rejected"
AssocRejected == ResultOf(2).settled = "rejected"
LineItemsRejected == ResultOf(3).settled = "rejected"
ProductsRejected == ResultOf(4).settled = "rejected"

Apis == {calls[i].api : i \in 1..Len(calls)}

\* C1: when neither parameters.dealId nor context.parameters.dealId is present,
\* main returns success=false, data=[] and a message, and issues no CRM call.
C1_MissingDealIdReturnsFailure ==
    (/\ pc # "start"
     /\ ~Truthy(Get(parameters, "dealId"))
     /\ ~Truthy(Get(Get(context, "parameters"), "dealId")))
    => (/\ Returned
        /\ response.success = FALSE
        /\ response.data = <<>>
        /\ response.message = "Deal ID is required"
        /\ calls = <<>>)

\* a string of whitespace only, or the empty string
Blank(v) == v.t = "str" /\ v.s \in {"", " "}

\* C2: for every dealId that is empty or whitespace only, main issues no CRM
\* call, and the envelope it returns has success=false and data=[].
C2_BlankDealIdIssuesNoCall ==
    (pc # "start" /\ (~Truthy(dealId) \/ Blank(dealId)))
    => (/\ calls = <<>>
        /\ pc \in {"returned", "rejected"}
        /\ Returned => (response.success = FALSE /\ response.data = <<>>))

\* C3: with a dealId and without access token, main returns success=false,
\* data=[] and the configuration message, and issues no CRM call.
C3_MissingTokenReturnsFailure ==
    (pc # "start" /\ Truthy(dealId) /\ token \in {Undef, Str("")})
    => (/\ Returned
        /\ response.success = FALSE
        /\ response.data = <<>>
        /\ response.message = "Server configuration error: missing access token"
        /\ calls = <<>>)

C3_Witness ==
    /\ Returned
    /\ dealId = Str("D1")
    /\ token = Str("")
    /\ response = ConfigurationFailure
    /\ calls = <<>>

\* C4: when the deal fetch is rejected, main returns success=false, data=[] and
\* a message made of the failure's message; the deal fetch stays the only call
\* issued (no association lookup, no batch read) and no view is built.
C4_DealFailureIsFatal ==
    DealRejected
    => (/\ Returned
        /\ response.success = FALSE
        /\ response.data = <<>>
        /\ response.message
             = "Failed to fetch deal " \o dealId.s \o ": " \o calls[1].result.value.message
        /\ response.errorDetails.name = calls[1].result.value.name
        /\ response.errorDetails.status = calls[1].result.value.status
        /\ Len(calls) = 1
        /\ lineItemIds = <<>>
        /\ lineItemResults = <<>>)

C4_Witness ==
    /\ Returned
    /\ calls = <<[api |-> "deals.getById", ids |-> <<Str("D1")>>,
                  result |-> Rejected(HttpError(404, "Not Found"))]>>
    /\ response.message = "Failed to fetch deal D1: Not Found"

\* the envelope main ends with once the identifiers are ids, given the recorded
\* outcomes of the two batch reads
EnvelopeFromIds(ids) ==
    IF ids = <<>> THEN NoLineItems
    ELSE IF ResultOf(3).settled = "rejected" THEN BatchFailure(ResultOf(3).value, ids)
    ELSE IF Nullish(ResultOf(3).value)
    THEN BatchFailure(TypeError("Cannot read properties of null (reading 'results')"), ids)
    ELSE FinalEnvelope(ResultsOf(ResultOf(3).value), ids,
                       IF Len(calls) >= 4 THEN ProductsMapOf(ResultOf(4)) ELSE <<>>)

\* the deal fetch resolved with a record
DealFetched == ResultOf(1).settled = "resolved" /\ ~Nullish(ResultOf(1).value)

\* the identifiers embedded in the deal record, each once
DealOnlyIds == SetOrder(IdsFromDeal(ResultOf(1).value))

\* C5: when the deal fetch succeeds and the association lookup is rejected, main
\* goes on as with an empty lookup result: the identifiers are those of the deal
\* record alone, and the envelope returned is the one computed from them.
C5_AssocFailureIsRecovered ==
    (DealFetched /\ AssocRejected)
    => (/\ pc \in {"awaitLineItems", "awaitProducts", "returned"}
        /\ lineItemIds = DealOnlyIds
        /\ Len(calls) >= 3 => calls[3].ids = DealOnlyIds
        /\ Returned => response = EnvelopeFromIds(DealOnlyIds))

C5_Witness ==
    /\ Returned
    /\ DealFetched
    /\ AssocRejected
    /\ lineItemIds = <<Str("L3"), Str("L2")>>
    /\ response.success = TRUE
    /\ Len(response.data) = 1

\* the merge has run: the association lookup has settled
Merged == Len(calls) >= 2 /\ ResultOf(2) # Pending

\* the two identifier lists the merge read: A from the association lookup, B
\* from the deal record (entries without id are no identifiers)
ListA == IdsFromAssociations(associationsResponse)
ListB == IdsFromDeal(dealResponse)

NoRepeat(q) == \A i, j \in 1..Len(q) : q[i] = q[j] => i = j

\* position of the first occurrence of x in q
FirstIndex(q, x) == CHOOSE i \in 1..Len(q) : q[i] = x /\ \A j \in 1..(i - 1) : q[j] # x

\* every identifier of A or B exactly once, in order of first appearance in A
\* followed by B
UnionInOrder ==
    /\ Range(lineItemIds) = Range(ListA) \cup Range(ListB)
    /\ NoRepeat(lineItemIds)
    /\ \A i, j \in 1..Len(lineItemIds) :
         i < j => FirstIndex(ListA \o ListB, lineItemIds[i])
                    < FirstIndex(ListA \o ListB, lineItemIds[j])
    /\ Len(lineItemIds) = Cardinality(Range(ListA) \cup Range(ListB))

\* C6 as stated: the merged set holds every identifier of A or B exactly once
\* in order of first appearance, and its size is |A|+|B| whenever A and B are
\* disjoint.
C6_MergeSizeIsSumWhenDisjoint ==
    Merged
    => (/\ UnionInOrder
        /\ Range(ListA) \cap Range(ListB) = {} => Len(lineItemIds) = Len(ListA) + Len(ListB))

\* C6 as amended: the merged set holds every identifier of A or B exactly once
\* in order of first appearance, its size is the number of distinct identifiers
\* of A and B, and that is |A|+|B| when A and B are disjoint and neither lists
\* an identifier twice.
C6_MergeIsOrderedUnion ==
    Merged
    => (/\ UnionInOrder
        /\ (Range(ListA) \cap Range(ListB) = {} /\ NoRepeat(ListA) /\ NoRepeat(ListB))
             => Len(lineItemIds) = Len(ListA) + Len(ListB))

C6_Witness ==
    /\ Merged
    /\ ListA = <<Str("L1"), Str("L2")>>
    /\ ListB = <<Str("L2"), Str("L3")>>
    /\ lineItemIds = <<Str("L1"), Str("L2"), Str("L3")>>

\* C7: when the line-item batch read is rejected, main returns success=false,
\* data=[], a message made of the failure's message and, in
\* errorDetails.lineItemIds, the merged identifiers that were requested; the
\* product batch read is not issued.
C7_BatchFailureIsFatal ==
    LineItemsRejected
    => (/\ Returned
        /\ response.success = FALSE
        /\ response.data = <<>>
        /\ response.message
             = "Failed to fetch line items: " \o calls[3].result.value.message
        /\ response.errorDetails.lineItemIds = calls[3].ids
        /\ calls[3].ids = SetOrder(ListA \o ListB)
        /\ calls[3].ids # <<>>
        /\ Len(calls) = 3
        /\ "products.batch.read" \notin Apis)

C7_Witness ==
    /\ Returned
    /\ LineItemsRejected
    /\ ListA = <<Str("L1")>>
    /\ ListB = <<Str("L3")>>
    /\ response.errorDetails.lineItemIds = <<Str("L1"), Str("L3")>>

\* the line-item batch read resolved with a response object: formatting ran
\* once main has returned
LineItemsFetched == ResultOf(3).settled = "resolved" /\ ~Nullish(ResultOf(3).value)

\* the records the line-item batch read returned
RecordsReturned == IF LineItemsFetched THEN ResultsOf(ResultOf(3).value) ELSE <<>>

\* the name a view takes from the line item itself
OwnNameOr(item, fallback) ==
    LET own == Get(Get(item, "properties"), "name")
    IN IF Truthy(own) THEN own ELSE fallback

\* C8: when the product batch read is rejected after the line-item batch read
\* succeeded, main returns success=true, every view has product = null and the
\* line item's own name or "Unknown Product" as productName (the placeholder of
\* a record whose formatting failed has "Error loading item"), and
\* meta.productsFound = 0.
C8_ProductFailureIsRecovered ==
    (Returned /\ LineItemsFetched /\ ProductsRejected)
    => (/\ response.success = TRUE
        /\ Len(response.data) = Len(RecordsReturned)
        /\ \A i \in 1..Len(response.data) :
             /\ response.data[i].product = Null
             /\ response.data[i].productName
                  \in {OwnNameOr(RecordsReturned[i], Str("Unknown Product")),
                       Str("Error loading item")}
        /\ response.meta.productsFound = 0)

\* C9: in every successful envelope data has as many elements as the line-item
\* batch read returned records, and the i-th element is the view (or the
\* placeholder) of the i-th record: it carries that record's id, or the id
\* synthesized from its position.
C9_OneViewPerRecordInOrder ==
    (Returned /\ response.success = TRUE)
    => (/\ Len(response.data) = Len(RecordsReturned)
        /\ \A i \in 1..Len(RecordsReturned) :
             /\ response.data[i] = FormatItem(RecordsReturned[i], i - 1, productsMap).view
             /\ response.data[i].id
                  \in {Get(RecordsReturned[i], "id"), Str("item-" \o ToString(i - 1)),
                       Str("error-" \o ToString(i - 1))}
             /\ Truthy(Get(RecordsReturned[i], "id"))
                  => response.data[i].id = RecordsReturned[i].id)

C9_Witness ==
    /\ Returned
    /\ response.success = TRUE
    /\ Len(RecordsReturned) = 2
    /\ RecordsReturned[1] = Null
    /\ response.data[1].id = Str("item-0")
    /\ response.data[2].productName = Str("Error loading item")
    /\ response.data[2].id = Str("L1")

\* the try block of the i-th record throws
ThrowsAt(i) == \E v \in TryOperands(RecordsReturned[i], i - 1, productsMap) : Throws(v)

\* C10: when building the view of a record throws, that record alone becomes a
\* placeholder (its id or a synthesized one, "Error loading item", zeroes,
\* product = null), the other records are formatted normally, and main returns
\* success=true.
C10_FormattingFailureIsIsolated ==
    (Returned /\ LineItemsFetched /\ \E i \in 1..Len(RecordsReturned) : ThrowsAt(i))
    => (/\ response.success = TRUE
        /\ Len(response.data) = Len(RecordsReturned)
        /\ \A i \in 1..Len(response.data) :
             IF ThrowsAt(i)
             THEN /\ response.data[i].productName = Str("Error loading item")
                  /\ response.data[i].quantity = Num(0)
                  /\ response.data[i].price = Num(0)
                  /\ response.data[i].amount = Num(0)
                  /\ response.data[i].product = Null
             ELSE response.data[i] = NormalView(RecordsReturned[i], i - 1, productsMap))

\* C11: every envelope main returns, on every success and failure path, has a
\* data field that is an array: empty on every failure path and in the
\* empty-set envelope, and an array of view objects otherwise (never null or
\* undefined, no null element).
C11_DataIsAlwaysAnArray ==
    Returned
    => (/\ "data" \in DOMAIN response
        /\ Len(response.data) >= 0
        /\ \A i \in 1..Len(response.data) : response.data[i].t = "obj"
        /\ response.success = FALSE => response.data = <<>>
        /\ "meta" \notin DOMAIN response => response.data = <<>>)

C11_Witness ==
    /\ Returned
    /\ Len(calls) = 4
    /\ response = UnexpectedFailure(TypeError("Cannot convert object to primitive value"))
    /\ response.data = <<>>

\* C12: no invocation of main ends in an unhandled exception: whatever the
\* input and the outcomes of the CRM calls, main does not reject, and what it
\* resolves with is an envelope with success and data.
C12_NoUnhandledException ==
    /\ pc # "rejected"
    /\ Returned => (response.t = "obj" /\ {"success", "data"} \subseteq DOMAIN response)

\* C13: when the merged identifier set is empty (neither source lists an
\* identifier, or the association lookup failed and the deal record lists
\* none), main returns success=true, data=[] and the informational message,
\* and issues neither the line-item nor the product batch read.
C13_EmptySetIsSuccess ==
    (Merged /\ ListA = <<>> /\ ListB = <<>>)
    => (/\ Returned
        /\ lineItemIds = <<>>
        /\ response.success = TRUE
        /\ response.data = <<>>
        /\ response.message = "No line items found for this deal"
        /\ Len(calls) = 2
        /\ Apis \cap {"lineItems.batch.read", "products.batch.read"} = {})

C13_Witness ==
    /\ Returned
    /\ DealFetched
    /\ AssocRejected
    /\ HasResults(Get(Get(dealResponse, "associations"), "line_items"))
    /\ ListB = <<>>
    /\ response = NoLineItems

\* the product records stored in the product map: the records of the product
\* batch read that have an id, when building the map did not fail
ProductsStored ==
    IF Len(calls) >= 4 /\ ResultOf(4).settled = "resolved"
       /\ ~Nullish(ResultOf(4).value) /\ HasResults(ResultOf(4).value)
       /\ ~ReduceProducts(ResultOf(4).value.results).threw
    THEN {p \in Range(ResultOf(4).value.results) : Truthy(p) /\ Truthy(Get(p, "id"))}
    ELSE {}

\* C14: in every successful envelope with a non-empty identifier set,
\* meta.totalFound is the size of the merged identifier set, meta.totalFormatted
\* the length of data, and meta.productsFound the number of entries of the
\* product map.
C14_MetaCounts ==
    (Returned /\ response.success = TRUE /\ lineItemIds # <<>>)
    => (/\ response.meta.totalFound = Cardinality(Range(ListA) \cup Range(ListB))
        /\ response.meta.totalFound = Len(lineItemIds)
        /\ response.meta.totalFormatted = Len(response.data)
        /\ response.meta.productsFound = Cardinality(DOMAIN productsMap)
        /\ response.meta.productsFound = Cardinality({p.id : p \in ProductsStored}))

C14_Witness ==
    /\ Returned
    /\ response.success = TRUE
    /\ ListA = <<Str("L1"), Str("L2")>>
    /\ ListB = <<Str("L2"), Str("L3")>>
    /\ response.meta = [totalFound |-> 3, totalFormatted |-> 1, productsFound |-> 1]

\* main with every console statement removed, as a function of the input and
\* of the outcomes recorded so far: without the statements of lines 60-65, 94-97
\* and 162 a null response is read only through ?. (lines 107, 116, 180)
IdsWithoutLogging ==
    MergeIds(IF ResultOf(2).settled = "resolved" THEN ResultOf(2).value
             ELSE AssocResponse(<<>>),
             ResultOf(1).value)

ResultsWithoutLogging == ResultsOf(ResultOf(3).value)

\* where main without console statements stands
PcWithoutLogging ==
    IF pc = "start" THEN "start"
    ELSE IF MissingDealId(dealId) \/ MissingToken(token) THEN "returned"
    ELSE IF ResultOf(1) = Pending THEN "awaitDeal"
    ELSE IF ResultOf(1).settled = "rejected" THEN "returned"
    ELSE IF ResultOf(2) = Pending THEN "awaitAssoc"
    ELSE IF IdsWithoutLogging = <<>> THEN "returned"
    ELSE IF ResultOf(3) = Pending THEN "awaitLineItems"
    ELSE IF ResultOf(3).settled = "rejected" THEN "returned"
    ELSE IF ProductIdsOf(ResultsWithoutLogging) # <<>> /\ ResultOf(4) = Pending
    THEN "awaitProducts"
    ELSE "returned"

\* what main without console statements returns
ResponseWithoutLogging ==
    IF MissingDealId(dealId) THEN ValidationFailure(context, parameters)
    ELSE IF MissingToken(token) THEN ConfigurationFailure
    ELSE IF ResultOf(1).settled = "rejected" THEN DealFailure(dealId, ResultOf(1).value)
    ELSE IF IdsWithoutLogging = <<>> THEN NoLineItems
    ELSE IF ResultOf(3).settled = "rejected"
    THEN BatchFailure(ResultOf(3).value, IdsWithoutLogging)
    ELSE FinalEnvelope(ResultsWithoutLogging, IdsWithoutLogging,
                       IF Len(calls) >= 4 THEN ProductsMapOf(ResultOf(4)) ELSE <<>>)

\* C15: logging never changes control flow: once a CRM call has been issued,
\* whatever the calls resolve with (null and undefined included), main stands
\* where it would stand with every console statement removed, and returns the
\* envelope it would return then.
C15_LoggingKeepsControlFlow ==
    Len(calls) >= 1
    => (/\ pc = PcWithoutLogging
        /\ Returned => response = ResponseWithoutLogging)

\* the four outbound calls in the order of the source text
CallOrder ==
    <<"deals.getById", "deals.associations.getAll", "lineItems.batch.read",
      "products.batch.read">>

\* C16: within one invocation the outbound calls are ordered and never
\* repeated: the i-th call issued is the i-th of the four (so each is issued at
\* most once), a call is issued only when every earlier one has settled, the
\* line-item batch read is issued with the merged identifiers, the product
\* batch read with references taken from the records the line-item read
\* returned, and nothing is issued after a rejected deal fetch or batch read.
C16_CallsOrderedAndIssuedOnce ==
    /\ Len(calls) <= 4
    /\ \A i \in 1..Len(calls) :
         /\ calls[i].api = CallOrder[i]
         /\ i < Len(calls) => calls[i].result # Pending
         /\ (i < Len(calls) /\ calls[i].result.settled = "rejected") => i = 2
    /\ Len(calls) >= 3 => (Merged /\ DealFetched /\ calls[3].ids = SetOrder(ListA \o ListB))
    /\ Len(calls) >= 4
         => (/\ LineItemsFetched
             /\ Range(calls[4].ids)
                  \subseteq {Get(Get(r, "properties"), "hs_product_id") :
                                r \in Range(RecordsReturned)})
    /\ pc \in {"returned", "rejected"} => \A i \in 1..Len(calls) : calls[i].result # Pending

C16_Witness ==
    /\ Returned
    /\ Len(calls) = 4
    /\ AssocRejected
    /\ \A i \in {1, 3, 4} : calls[i].result.settled = "resolved"
    /\ calls[3].ids = <<Str("L3"), Str("L2")>>

\* the operations of the CRM client that read
ReadApis == Range(CallOrder)

\* the invocation before this one has returned
CalledBefore == previous # Undef

\* every call of this invocation has had the outcome the call at the same
\* position had in the invocation before
SameOutcomes ==
    \A i \in 1..Len(calls) :
        i <= Len(previous.calls) => calls[i].result = previous.calls[i].result

ReferencesPresent ==
    {ref \in {Get(Get(r, "properties"), "hs_product_id") : r \in Range(RecordsReturned)} :
       Truthy(ref)}

\* C18: once the line-item batch read has returned its records, the product
\* batch read has been requested with exactly the product references present
\* among them, each once, and it has not been issued at all when no record has
\* a product reference.
C18_ProductReadRequestsReferences ==
    LineItemsFetched
    => IF ReferencesPresent = {}
       THEN Len(calls) = 3 /\ "products.batch.read" \notin Apis
       ELSE /\ Len(calls) = 4
            /\ calls[4].api = "products.batch.read"
            /\ Range(calls[4].ids) = ReferencesPresent
            /\ NoRepeat(calls[4].ids)

C18_Witness ==
    /\ LineItemsFetched
    /\ Len(RecordsReturned) = 2
    /\ \A i \in 1..2 : Get(Get(RecordsReturned[i], "properties"), "hs_product_id") = Str("P1")
    /\ calls[4].ids = <<Str("P1")>>

\* the stored product records the i-th record refers to
Matched(i) ==
    {p \in ProductsStored :
       p.id = Get(Get(RecordsReturned[i], "properties"), "hs_product_id")}

\* C19: for every formatted line item, product is non-null exactly when the
\* item's product reference is present among the fetched products, and
\* productName is the item's own name when it is not empty, else the name of
\* the matched product, else "Unknown Product".
C19_ProductFollowsReference ==
    (Returned /\ response.success = TRUE /\ LineItemsFetched)
    => \A i \in 1..Len(response.data) :
         LET own == Get(Get(RecordsReturned[i], "properties"), "name")
             names == {Get(Get(p, "properties"), "name") : p \in Matched(i)}
         IN /\ (response.data[i].product # Null) <=> (Matched(i) # {})
            /\ response.data[i].productName
                 \in IF Truthy(own) THEN {own}
                     ELSE IF \E n \in names : Truthy(n) THEN {n \in names : Truthy(n)}
                     ELSE {Str("Unknown Product")}

\* a string that is a number from its first to its last character: optional
\* sign, digits, and (unless integerOnly) an optional point and decimals
WholeNumber(cs, integerOnly) ==
    LET s2 == IF cs # <<>> /\ Head(cs) \in {"-", "+"} THEN Tail(cs) ELSE cs
        n == DigitRun(s2)
        rest == Drop(s2, n)
    IN /\ n > 0
       /\ \/ rest = <<>>
          \/ /\ ~integerOnly
             /\ Head(rest) = "."
             /\ Len(rest) > 1
             /\ DigitRun(Tail(rest)) = Len(rest) - 1

\* the raw value is a valid integer, given as number or as numeric string
ValidInteger(raw) ==
    \/ raw.t = "num" /\ raw.h % 100 = 0
    \/ raw.t = "str" /\ "cs" \in DOMAIN raw /\ WholeNumber(raw.cs, TRUE)

\* the raw value is a valid number, given as number or as numeric string
ValidNumber(raw) ==
    \/ raw.t = "num"
    \/ raw.t = "str" /\ "cs" \in DOMAIN raw /\ WholeNumber(raw.cs, FALSE)

\* the number a valid raw value denotes
Denoted(raw) == IF raw.t = "num" THEN raw ELSE ParseFloatChars(raw.cs)

\* C20: for every line-item record, quantity in the view is the raw quantity
\* when that is a valid integer and 1 when it is missing or invalid; price and
\* amount are the raw values when these are valid numbers and 0 when they are
\* missing or invalid.
C20_NumericCoercion ==
    (Returned /\ response.success = TRUE /\ LineItemsFetched)
    => \A i \in 1..Len(response.data) :
         LET props == Get(RecordsReturned[i], "properties")
             quantity == Get(props, "quantity")
             price == Get(props, "price")
             amount == Get(props, "amount")
         IN /\ response.data[i].quantity
                 = IF ValidInteger(quantity) THEN Denoted(quantity) ELSE Num(100)
            /\ response.data[i].price
                 = IF ValidNumber(price) THEN Denoted(price) ELSE Num(0)
            /\ response.data[i].amount
                 = IF ValidNumber(amount) THEN Denoted(amount) ELSE Num(0)

\* C21: every view of every returned data array has a quantity that is an
\* integer >= 0 and a price and an amount that are non-negative numbers,
\* whatever the raw values of the record.
C21_ViewNumbersAreNonNegative ==
    Returned
    => \A i \in 1..Len(response.data) :
         /\ response.data[i].quantity.t = "num"
         /\ response.data[i].quantity.h % 100 = 0
         /\ response.data[i].quantity.h >= 0
         /\ response.data[i].price.t = "num"
         /\ response.data[i].price.h >= 0
         /\ response.data[i].amount.t = "num"
         /\ response.data[i].amount.h >= 0

\* the invocation of get-deal-info has ended
InfoEnded == infoPc \in {"returned", "rejected"}

\* the envelope main of get-deal-info ends with, given what it has read
InfoEnvelopeExpected ==
    IF ~Truthy(infoDealId) THEN {InfoMissingId}
    ELSE IF deal = Undef
    THEN {InfoFailure(outcome.value) : outcome \in Failures}
    ELSE IF Nullish(deal)
    THEN {InfoFailure(TypeError("Cannot read properties of null (reading 'properties')"))}
    ELSE {e \in {InfoSuccess(DealInfo(deal, stageLabel, ownerName, c[1], c[2], c[3])) :
                   c \in {<<Null, Str("No Company"), Null>>,
                          <<Str("C1"), Str("No Company"), Null>>,
                          <<Str("C1"), Str("Acme"), Str("AC")>>,
                          <<Str("C1"), Str("Unknown Company"), Null>>}} :
            (e.data.companyId = Null) <=> ~HasCompany(deal)}

\* C22: get-deal-info supports both calling conventions with the same result:
\* with a callback as second argument the envelope is delivered by invoking
\* the callback exactly once per invocation (on missing id, success and
\* failure); with a parameters object the same envelope is the promise result
\* and no callback is involved.
C22_BothConventionsDeliverOnce ==
    InfoEnded
    => IF convention = "callback"
       THEN /\ Len(sendResponseCalls) = 1
            /\ sendResponseCalls[1] \in InfoEnvelopeExpected
       ELSE /\ sendResponseCalls = <<>>
            /\ infoPc = "returned"
            /\ infoResult.value \in InfoEnvelopeExpected

\* C23: main accepts a cancellation signal of its caller and propagates it to
\* every outbound call: once the signal is aborted main does not go on to a
\* successful result and does not throw; the envelope it returns has
\* success=false and data=[] (its error kind would be "cancelled"; no envelope
\* of main has a field for the kind, lines 19-27, 69-81, 165-174, 277-291).
C23_CancellationAborts ==
    signalAborted
    => (/\ pc # "rejected"
        /\ Returned => (response.success = FALSE /\ response.data = <<>>))

\* the get-deal-line-items requests DealProductConfiguration has in flight
LineItemsRequests == InFlight(configuration, "get-deal-line-items")

\* C24: DealProductConfiguration has at most one get-deal-line-items request
\* in flight.  Its guard is set exactly while a request is in flight, so a
\* loadLineItems called meanwhile issues nothing; once the request is
\* answered, whatever the answer, the guard is released and lineItemsLoading
\* is false, and the next loadLineItems issues a request.
C24_OneLineItemsRequestInFlight ==
    LET s == configuration
        again == LoadLineItems(s, "onRefresh")
    IN /\ Cardinality(LineItemsRequests) <= 1
       /\ s.loadingStatesRef.lineItems <=> LineItemsRequests # {}
       /\ LineItemsRequests # {} => again = s
       /\ LineItemsRequests = {}
              => /\ ~s.lineItemsLoading
                 /\ Cardinality(InFlight(again, "get-deal-line-items")) = 1

\* a request is in flight after an earlier one was answered with line items
C24_Witness ==
    /\ LineItemsRequests # {}
    /\ configuration.existingLineItems # <<>>

\* C25: while the loaded deal is closed, handleEditLineItem and
\* handleDeleteLineItem only set their error message: no request is issued
\* and existingLineItems, editingLineItemId and dealInfo stay as they are.
C25_ClosedDealIsReadOnly ==
    LET s == configuration
    IN DealIsClosed(s.dealInfo)
       => \A item \in {ItemA, ItemB} :
             /\ HandleEditLineItem(s, item)
                    = [s EXCEPT !.error = "Cannot edit line items on closed deals"]
             /\ HandleDeleteLineItem(s, item.id)
                    = [s EXCEPT !.error = "Cannot delete line items on closed deals"]

\* Remove was used on a row of a closed deal
C25_Witness ==
    /\ DealIsClosed(configuration.dealInfo)
    /\ configuration.existingLineItems # <<>>
    /\ configuration.error = "Cannot delete line items on closed deals"

\* create-configuration answers request i with success
CreateSucceeds(i) ==
    /\ i \in InFlight(configuration, "create-configuration")
    /\ \E outcome \in MutationResponses :
           /\ Succeeded(outcome)
           /\ configuration' = ConfigurationCreated(Answered(i), outcome)

\* C27: when handleSubmitNewItems receives a successful create-configuration
\* response, a get-deal-line-items request is issued on its behalf after that
\* response (whose result existingLineItems then comes to hold), whatever
\* other loads are in flight.
C27_CreateIsFollowedByReload ==
    [][\A i \in DOMAIN configuration.inFlight :
           CreateSucceeds(i)
           => \E j \in DOMAIN configuration'.inFlight :
                 configuration'.inFlight[j]
                     = LoadRequest("get-deal-line-items", "handleSubmitNewItems")]_vars

\* C29: no update-line-item, delete-line-item or create-configuration
\* request is issued from a state whose loaded deal is closed, also when
\* the deal became closed through a reload after editing had started.
C29_NoMutationOnClosedDeal ==
    [][DealIsClosed(configuration.dealInfo)
       => Cardinality(Mutations(configuration')) <= Cardinality(Mutations(configuration))]_vars

\* the deal amount is the total of the line items shown
AmountIsTotal(s) ==
    s.dealInfo.t # "null" /\ s.dealInfo.amount = SumAmounts(s.existingLineItems)

\* update-line-item or delete-line-item answers request i with the outcome
SaveOrDeleteReturns(i, outcome) ==
    \/ /\ i \in InFlight(configuration, "update-line-item")
       /\ configuration' = LineItemSaved(Answered(i), configuration.inFlight[i], outcome)
    \/ /\ i \in InFlight(configuration, "delete-line-item")
       /\ configuration' = LineItemDeleted(Answered(i), configuration.inFlight[i], outcome)

\* C30: a successful save or delete keeps the deal amount equal to the total
\* of the line items when it was equal before, in every interleaving of
\* saves, deletes and reloads; a failed one leaves the list and the deal
\* as they were.
C30_AmountFollowsLineItems ==
    [][\A i \in DOMAIN configuration.inFlight, outcome \in MutationResponses :
           SaveOrDeleteReturns(i, outcome)
           => IF Succeeded(outcome)
              THEN AmountIsTotal(configuration) => AmountIsTotal(configuration')
              ELSE /\ configuration'.existingLineItems = configuration.existingLineItems
                   /\ configuration'.dealInfo = configuration.dealInfo]_vars

\* the state the DealLineItems of part_003 renders
TrackedState(s) ==
    <<s.dealInfo, s.existingLineItems, s.error, s.dealLoading, s.lineItemsLoading>>

\* C26: once the DealLineItems that keeps isMountedRef is unmounted, neither
\* an answer to a pending loadDealInfo or loadLineItems nor a call of them
\* started afterwards changes dealInfo, existingLineItems, error, dealLoading
\* or lineItemsLoading, in whatever order unmount and answers occur.
C26_NoUpdateAfterUnmount ==
    [][~tracking.isMountedRef
       => /\ TrackedState(tracking') = TrackedState(tracking)
          /\ TrackedLoadDealInfo(tracking) = tracking
          /\ TrackedLoadLineItems(tracking) = tracking]_vars

\* every request pending at the unmount has been answered since
C26_Witness ==
    /\ ~tracking.isMountedRef
    /\ tracking.inFlight = <<>>
    /\ tracking.dealLoading
    /\ tracking.lineItemsLoading

\* every request of the DealLineItems of part_008 is answered
AllAnswered == \A i \in DOMAIN listing.requests : listing.requests[i].result # Pending

\* C28: once every get-deal-line-items request is answered, loading is false
\* and, when the request issued last asked for the current deal and was
\* answered with line items, those are the line items displayed: the answer
\* to an earlier request never replaces them.
C28_LatestRequestWins ==
    LET last == listing.requests[Len(listing.requests)]
    IN (listing.requests # <<>> /\ AllAnswered)
       => /\ ~listing.loading
          /\ (last.dealId = listing.dealId /\ TrackedSucceeded(last.result))
                 => listing.lineItems = ListedItems(Unwrap(last.result.value).data)

====
